---- MODULE Spec2Model ----
(***************************************************************************)
(* A model of the trivy-dashboard ingestion and aggregation engine         *)
(* (backend/main.go) and of the grade calculator of the UI                 *)
(* (frontend/src/App.tsx).                                                 *)
(*                                                                         *)
(* Go strings are sequences of one-character strings, so that the parsing  *)
(* heuristics are computed character by character as the code does.        *)
(* Instants (time.Time) are records [d |-> YYYYMMDD, t |-> HHMMSS] ordered *)
(* lexicographically (one fixed time zone without clock changes).          *)
(***************************************************************************)
EXTENDS Integers, Sequences, FiniteSets, TLC

VARIABLES
    files,      \* the export directory: relative path -> [report, size, mod]
    resp,       \* the response to the last query since the directory last changed
    prevResp,   \* the response before it, when it answered the same query
    qpc,        \* a step-wise query: "idle", "walk", "files", "done", "failed"
    qkind,      \* which query it is
    qnames,     \* filepath.Walk: names read from directories, not yet lstat-ed
    qfound,     \* walkJSONFiles: jsonFiles found so far
    qtodo,      \* the handler's loop: jsonFiles not yet processed, the first
                \* with its os.Stat result once taken
    qscans,     \* the handler's loop: scan records built so far
    qstable,    \* the files that have been in the directory since the query began
    gh,         \* grade calculator: a histogram
    gh2,        \* grade calculator: a second histogram, derived from gh
    gr,         \* calculateGrade(gh), NoGrade before it is computed
    gr2,        \* calculateGrade(gh2), NoGrade before it is computed
    an,         \* identity resolver: an artifact name and the parts it was built from
    anOut,      \* extractProjectImageTagFromArtifactName(an.name), once computed
    rkScans,    \* ranker: the scans of one image, as appended
    rkSorted,   \* ranker: the scans after sort.Slice, <<>> before it
    pl,         \* path resolver: a project, an image and a file layout
    plOut,      \* extractProjectAndImageFromPath of the path so laid out
    denied,     \* the directories that cannot be read (<<>> is the export root)
    ts,         \* timestamp subroutines: a file name, its directory, a fallback time
    tsOut       \* the name after each stripping, and the time read from the path

vars == <<files, resp, prevResp, qpc, qkind, qnames, qfound, qtodo,
          qscans, qstable, gh, gh2, gr, gr2, an, anOut,
          rkScans, rkSorted, pl, plOut, denied, ts, tsOut>>

-----------------------------------------------------------------------------
(* Go strings *)

\* The characters of the model in byte order; only the order is used.
AsciiOrder ==
    << "+", "-", ".", "/",
       "0", "1", "2", "3", "4", "5", "6", "7", "8", "9", ":",
       "A", "B", "C", "D", "E", "F", "G", "H", "I", "J", "K", "L", "M",
       "N", "O", "P", "Q", "R", "S", "T", "U", "V", "W", "X", "Y", "Z",
       "a", "b", "c", "d", "e", "f", "g", "h", "i", "j", "k", "l", "m",
       "n", "o", "p", "q", "r", "s", "t", "u", "v", "w", "x", "y", "z" >>

OrdMap == [c \in {AsciiOrder[i] : i \in 1..Len(AsciiOrder)} |->
              CHOOSE i \in 1..Len(AsciiOrder) : AsciiOrder[i] = c]

Ord(c) == OrdMap[c]

IsDigit(c) == Ord(c) >= Ord("0") /\ Ord(c) <= Ord("9")

DigitVal(c) == Ord(c) - Ord("0")

\* s1 < s2 on Go strings: bytewise lexicographic.
RECURSIVE StrLess(_, _)
StrLess(s1, s2) ==
    IF s2 = <<>> THEN FALSE
    ELSE IF s1 = <<>> THEN TRUE
    ELSE IF Head(s1) # Head(s2) THEN Ord(Head(s1)) < Ord(Head(s2))
    ELSE StrLess(Tail(s1), Tail(s2))

\* s[i:j] with Go's 0-based, half-open indices.
Slice(s, i, j) == SubSeq(s, i + 1, j)

HasPrefix(s, p) == Len(s) >= Len(p) /\ SubSeq(s, 1, Len(p)) = p

HasSuffix(s, p) == Len(s) >= Len(p) /\ SubSeq(s, Len(s) - Len(p) + 1, Len(s)) = p

TrimPrefix(s, p) == IF HasPrefix(s, p) THEN SubSeq(s, Len(p) + 1, Len(s)) ELSE s

TrimSuffix(s, p) == IF HasSuffix(s, p) THEN SubSeq(s, 1, Len(s) - Len(p)) ELSE s

\* strings.Contains
Contains(s, sub) ==
    \E i \in 0..(Len(s) - Len(sub)) : SubSeq(s, i + 1, i + Len(sub)) = sub

\* strings.Count for a one-character separator
Count(s, c) == Cardinality({i \in 1..Len(s) : s[i] = c})

\* strings.LastIndex for a one-character separator: 0-based, -1 when absent
RECURSIVE LastIndexFrom(_, _, _)
LastIndexFrom(s, c, i) ==
    IF i < 1 THEN -1
    ELSE IF s[i] = c THEN i - 1
    ELSE LastIndexFrom(s, c, i - 1)

LastIndex(s, c) == LastIndexFrom(s, c, Len(s))

\* strings.Index for a one-character separator: 0-based, -1 when absent
RECURSIVE IndexFrom(_, _, _)
IndexFrom(s, c, i) ==
    IF i > Len(s) THEN -1
    ELSE IF s[i] = c THEN i - 1
    ELSE IndexFrom(s, c, i + 1)

Index(s, c) == IndexFrom(s, c, 1)

\* strings.Split for a one-character separator
RECURSIVE Split(_, _)
Split(s, c) ==
    LET i == Index(s, c)
    IN  IF i = -1 THEN <<s>>
        ELSE <<Slice(s, 0, i)>> \o Split(Slice(s, i + 1, Len(s)), c)

\* strings.Join
RECURSIVE JoinWith(_, _)
JoinWith(parts, sep) ==
    IF parts = <<>> THEN <<>>
    ELSE IF Len(parts) = 1 THEN parts[1]
    ELSE parts[1] \o sep \o JoinWith(Tail(parts), sep)

\* strings.ToUpper on the letters of the model
UpperChar(c) ==
    IF Ord(c) >= Ord("a") /\ Ord(c) <= Ord("z")
    THEN AsciiOrder[Ord(c) - Ord("a") + Ord("A")]
    ELSE c

ToUpper(s) == [i \in 1..Len(s) |-> UpperChar(s[i])]

RECURSIVE DigitsValue(_)
DigitsValue(s) ==
    IF s = <<>> THEN 0
    ELSE 10 * DigitsValue(SubSeq(s, 1, Len(s) - 1)) + DigitVal(s[Len(s)])

AllDigits(s) == \A i \in 1..Len(s) : IsDigit(s[i])

\* strconv.ParseInt(s, 10, 64): an optional sign and at least one digit.
\* The strings of the model are short enough never to overflow 64 bits.
ParseIntOk(s) ==
    LET body == IF s # <<>> /\ s[1] \in {"+", "-"} THEN Tail(s) ELSE s
    IN  body # <<>> /\ AllDigits(body)

ParseIntVal(s) ==
    IF s # <<>> /\ s[1] = "-" THEN 0 - DigitsValue(Tail(s))
    ELSE IF s # <<>> /\ s[1] = "+" THEN DigitsValue(Tail(s))
    ELSE DigitsValue(s)

-----------------------------------------------------------------------------
(* path/filepath on a system whose separator is "/" *)

\* filepath.Split: the directory part keeps its trailing separator.
PathSplit(path) ==
    LET i == LastIndex(path, "/")
    IN  [dir |-> Slice(path, 0, i + 1), file |-> Slice(path, i + 1, Len(path))]

\* filepath.Ext: the suffix from the last dot of the last element, "" without one.
PathExt(path) ==
    LET name == PathSplit(path).file
        i    == LastIndex(name, ".")
    IN  IF i = -1 THEN <<>> ELSE Slice(name, i, Len(name))

\* The elements Clean keeps of a rooted path: "" and "." are dropped and ".."
\* removes the element before it (at the root it is dropped).
RECURSIVE CleanElems(_, _)
CleanElems(elems, out) ==
    IF elems = <<>> THEN out
    ELSE LET e == Head(elems)
         IN  IF e = <<>> \/ e = <<".">> THEN CleanElems(Tail(elems), out)
             ELSE IF e = <<".", ".">>
                  THEN CleanElems(Tail(elems),
                                  IF out = <<>> THEN out ELSE SubSeq(out, 1, Len(out) - 1))
             ELSE CleanElems(Tail(elems), Append(out, e))

\* filepath.Clean of a rooted path.
PathClean(path) == <<"/">> \o JoinWith(CleanElems(Split(path, "/"), <<>>), <<"/">>)

\* filepath.Join(dir, name) for a rooted dir and a non-empty name.
PathJoin(dir, name) == PathClean(dir \o <<"/">> \o name)

\* filepath.Rel(base, target) for a target that Walk produced beneath base.
PathRel(base, target) == TrimPrefix(target, base \o <<"/">>)

-----------------------------------------------------------------------------
(* time.Time *)

ZeroTime == [d |-> 10101, t |-> 0]

\* t.After(u)
After(t, u) == t.d > u.d \/ (t.d = u.d /\ t.t > u.t)

\* t.Before(u)
Before(t, u) == After(u, t)

IsLeap(year) == year % 4 = 0 /\ (year % 100 # 0 \/ year % 400 = 0)

DaysIn(month, year) ==
    IF month = 2 THEN (IF IsLeap(year) THEN 29 ELSE 28)
    ELSE IF month \in {4, 6, 9, 11} THEN 30
    ELSE 31

\* time.ParseInLocation("20060102-150405", date-time, time.Local) on 8 and 6
\* digits: [ok, time].
ParseTimestamp(dpart, tpart) ==
    LET year  == DigitsValue(SubSeq(dpart, 1, 4))
        month == DigitsValue(SubSeq(dpart, 5, 6))
        day   == DigitsValue(SubSeq(dpart, 7, 8))
        hour  == DigitsValue(SubSeq(tpart, 1, 2))
        min   == DigitsValue(SubSeq(tpart, 3, 4))
        sec   == DigitsValue(SubSeq(tpart, 5, 6))
        ok    == /\ month >= 1 /\ month <= 12
                 /\ day >= 1 /\ day <= DaysIn(month, year)
                 /\ hour < 24 /\ min < 60 /\ sec < 60
    IN  [ok |-> ok,
         time |-> [d |-> DigitsValue(dpart), t |-> DigitsValue(tpart)]]

-----------------------------------------------------------------------------
(* Identity and timestamp resolution *)

JsonExt == <<".", "j", "s", "o", "n">>

\* Whether a name ends in -NNNNNNNN-NNNNNN and is longer than that suffix.
HasTimestampSuffix(filename) ==
    /\ Len(filename) > 16
    /\ LET lastPart == Slice(filename, Len(filename) - 16, Len(filename))
       IN  /\ Len(lastPart) = 16
           /\ lastPart[1] = "-"
           /\ Count(lastPart, "-") = 2
           /\ LET parts == Split(Tail(lastPart), "-")
              IN  /\ Len(parts) = 2
                  /\ Len(parts[1]) = 8
                  /\ Len(parts[2]) = 6
                  /\ \A k \in 1..2 : AllDigits(parts[k])

\* A stripper that removes a last hyphen and the digits after it.
removeDigitGroupFromFilename(filename) ==
    LET lastDash == LastIndex(filename, "-")
    IN  IF /\ lastDash > 0 /\ lastDash < Len(filename) - 1
           /\ AllDigits(Slice(filename, lastDash + 1, Len(filename)))
        THEN Slice(filename, 0, lastDash)
        ELSE filename

removeTimestampFromFilename(filename) ==
    IF HasTimestampSuffix(filename)
    THEN Slice(filename, 0, Len(filename) - 16)
    ELSE filename

\* An extractor that takes the digits as a time without parsing them.
extractTimestampUnparsed(relPath, defaultTime) ==
    LET basePath == TrimSuffix(relPath, JsonExt)
        fileName == PathSplit(basePath).file
    IN  IF basePath = <<>> THEN defaultTime
        ELSE IF HasTimestampSuffix(fileName)
             THEN LET lastPart == Slice(fileName, Len(fileName) - 16, Len(fileName))
                      parts    == Split(Tail(lastPart), "-")
                  IN  ParseTimestamp(parts[1], parts[2]).time
             ELSE defaultTime

extractTimestampFromPath(relPath, defaultTime) ==
    LET basePath == TrimSuffix(relPath, JsonExt)
        fileName == PathSplit(basePath).file
    IN  IF basePath = <<>> THEN defaultTime
        ELSE IF HasTimestampSuffix(fileName)
             THEN LET lastPart == Slice(fileName, Len(fileName) - 16, Len(fileName))
                      parts    == Split(Tail(lastPart), "-")
                      parsed   == ParseTimestamp(parts[1], parts[2])
                  IN  IF parsed.ok THEN parsed.time ELSE defaultTime
             ELSE defaultTime

\* A path resolver that splits the flat name at its first hyphen.
extractSplittingAtFirstDash(relPath) ==
    LET basePath  == TrimSuffix(relPath, JsonExt)
        sp        == PathSplit(basePath)
        baseName  == removeTimestampFromFilename(sp.file)
        firstDash == Index(baseName, "-")
    IN  IF basePath = <<>> THEN [project |-> <<>>, image |-> <<>>]
        ELSE IF sp.dir # <<>>
             THEN [project |-> TrimSuffix(TrimSuffix(sp.dir, <<"/">>), <<"/">>),
                   image   |-> removeTimestampFromFilename(sp.file)]
        ELSE IF firstDash = -1 \/ firstDash = 0 \/ firstDash = Len(baseName) - 1
             THEN [project |-> baseName, image |-> <<>>]
        ELSE [project |-> Slice(baseName, 0, firstDash),
              image   |-> Slice(baseName, firstDash + 1, Len(baseName))]

extractProjectAndImageFromPath(relPath) ==
    LET basePath == TrimSuffix(relPath, JsonExt)
        sp       == PathSplit(basePath)
        baseName == removeTimestampFromFilename(sp.file)
        lastDash == LastIndex(baseName, "-")
    IN  IF basePath = <<>> THEN [project |-> <<>>, image |-> <<>>]
        ELSE IF sp.dir # <<>>
             THEN [project |-> TrimSuffix(TrimSuffix(sp.dir, <<"/">>), <<"/">>),
                   image   |-> removeTimestampFromFilename(sp.file)]
        ELSE IF lastDash = -1 \/ lastDash = 0 \/ lastDash = Len(baseName) - 1
             THEN [project |-> baseName, image |-> <<>>]
        ELSE [project |-> Slice(baseName, 0, lastDash),
              image   |-> Slice(baseName, lastDash + 1, Len(baseName))]

\* A resolver that splits at the last hyphen wherever it is.
extractWithoutEdgeCheck(artifactName) ==
    LET failed    == [project |-> <<>>, image |-> <<>>, tag |-> <<>>]
        parts     == Split(artifactName, ":")
        lastColon == LastIndex(artifactName, ":")
        splitOk   == Len(parts) <= 2
                     \/ (lastColon > 0 /\ lastColon < Len(artifactName) - 1)
        namePart  == IF Len(parts) <= 2 THEN parts[1]
                     ELSE Slice(artifactName, 0, lastColon)
        tag       == IF Len(parts) = 2 THEN parts[2]
                     ELSE IF Len(parts) = 1 THEN <<>>
                     ELSE Slice(artifactName, lastColon + 1, Len(artifactName))
        lastDash  == LastIndex(namePart, "-")
    IN  IF artifactName = <<>> THEN failed
        ELSE IF ~splitOk THEN failed
        ELSE IF lastDash = -1
             THEN [project |-> namePart, image |-> namePart, tag |-> tag]
        ELSE [project |-> Slice(namePart, 0, lastDash),
              image   |-> Slice(namePart, lastDash + 1, Len(namePart)),
              tag     |-> tag]

\* A resolver whose image starts one character early, at the hyphen.
extractKeepingHyphen(artifactName) ==
    LET failed    == [project |-> <<>>, image |-> <<>>, tag |-> <<>>]
        parts     == Split(artifactName, ":")
        lastColon == LastIndex(artifactName, ":")
        splitOk   == Len(parts) <= 2
                     \/ (lastColon > 0 /\ lastColon < Len(artifactName) - 1)
        namePart  == IF Len(parts) <= 2 THEN parts[1]
                     ELSE Slice(artifactName, 0, lastColon)
        tag       == IF Len(parts) = 2 THEN parts[2]
                     ELSE IF Len(parts) = 1 THEN <<>>
                     ELSE Slice(artifactName, lastColon + 1, Len(artifactName))
        lastDash  == LastIndex(namePart, "-")
    IN  IF artifactName = <<>> THEN failed
        ELSE IF ~splitOk THEN failed
        ELSE IF lastDash = -1 \/ lastDash = 0 \/ lastDash = Len(namePart) - 1
             THEN [project |-> namePart, image |-> namePart, tag |-> tag]
        ELSE [project |-> Slice(namePart, 0, lastDash),
              image   |-> Slice(namePart, lastDash, Len(namePart)),
              tag     |-> tag]

extractProjectImageTagFromArtifactName(artifactName) ==
    LET failed    == [project |-> <<>>, image |-> <<>>, tag |-> <<>>]
        parts     == Split(artifactName, ":")
        lastColon == LastIndex(artifactName, ":")
        splitOk   == Len(parts) <= 2
                     \/ (lastColon > 0 /\ lastColon < Len(artifactName) - 1)
        namePart  == IF Len(parts) <= 2 THEN parts[1]
                     ELSE Slice(artifactName, 0, lastColon)
        tag       == IF Len(parts) = 2 THEN parts[2]
                     ELSE IF Len(parts) = 1 THEN <<>>
                     ELSE Slice(artifactName, lastColon + 1, Len(artifactName))
        lastDash  == LastIndex(namePart, "-")
    IN  IF artifactName = <<>> THEN failed
        ELSE IF ~splitOk THEN failed
        ELSE IF lastDash = -1 \/ lastDash = 0 \/ lastDash = Len(namePart) - 1
             THEN [project |-> namePart, image |-> namePart, tag |-> tag]
        ELSE [project |-> Slice(namePart, 0, lastDash),
              image   |-> Slice(namePart, lastDash + 1, Len(namePart)),
              tag     |-> tag]

-----------------------------------------------------------------------------
(* Version-aware ranking *)

\* The loop of compareVersionTags from component i (0-based) on. A component
\* that is absent leaves num = 0 and err = nil, as the declarations do.
RECURSIVE CompareParts(_, _, _)
CompareParts(parts1, parts2, i) ==
    LET maxLen == IF Len(parts2) > Len(parts1) THEN Len(parts2) ELSE Len(parts1)
        has1   == i < Len(parts1)
        has2   == i < Len(parts2)
        ok1    == ~has1 \/ ParseIntOk(parts1[i + 1])
        ok2    == ~has2 \/ ParseIntOk(parts2[i + 1])
        num1   == IF has1 /\ ok1 THEN ParseIntVal(parts1[i + 1]) ELSE 0
        num2   == IF has2 /\ ok2 THEN ParseIntVal(parts2[i + 1]) ELSE 0
        str1   == IF has1 THEN parts1[i + 1] ELSE <<>>
        str2   == IF has2 THEN parts2[i + 1] ELSE <<>>
    IN  IF i >= maxLen THEN 0
        ELSE IF ok1 /\ ok2
             THEN IF num1 < num2 THEN -1
                  ELSE IF num1 > num2 THEN 1
                  ELSE CompareParts(parts1, parts2, i + 1)
        ELSE IF StrLess(str1, str2) THEN -1
             ELSE IF StrLess(str2, str1) THEN 1
             ELSE CompareParts(parts1, parts2, i + 1)

compareVersionTags(tag1, tag2) ==
    IF tag1 = tag2 THEN 0
    ELSE IF tag1 = <<>> THEN -1
    ELSE IF tag2 = <<>> THEN 1
    ELSE CompareParts(Split(TrimPrefix(tag1, <<"v">>), "."),
                      Split(TrimPrefix(tag2, <<"v">>), "."), 0)

-----------------------------------------------------------------------------
(* The export directory and the reports in it *)

ExportDir == <<"/", "a", "p", "p", "/", "e", "x", "p", "o", "r", "t">>

CRITICAL == <<"C", "R", "I", "T", "I", "C", "A", "L">>
HIGH     == <<"H", "I", "G", "H">>
MEDIUM   == <<"M", "E", "D", "I", "U", "M">>
LOW      == <<"L", "O", "W">>
UNKNOWN  == <<"U", "N", "K", "N", "O", "W", "N">>

\* File contents. Bytes that do not decode have decodes = FALSE; a report is
\* its ArtifactName and, per result group, the Severity of each vulnerability.
Garbage == [decodes |-> FALSE, ArtifactName |-> <<>>, Results |-> <<>>]

ReportTag10 ==
    [decodes |-> TRUE,
     ArtifactName |-> <<"a", "-", "x", ":", "1", "0">>,
     Results |-> << <<CRITICAL, HIGH>> >>]

ReportTag9 ==
    [decodes |-> TRUE,
     ArtifactName |-> <<"a", "-", "x", ":", "9">>,
     Results |-> << <<HIGH>>, <<>> >>]

ReportTag1a ==
    [decodes |-> TRUE,
     ArtifactName |-> <<"a", "-", "x", ":", "1", "a">>,
     Results |-> << <<MEDIUM, MEDIUM>>, <<MEDIUM>> >>]

ReportNoName ==
    [decodes |-> TRUE,
     ArtifactName |-> <<>>,
     Results |-> << <<<<"l", "o", "w">>>>, <<<<>>, HIGH>> >>]

EarlyTime == [d |-> 20241231, t |-> 120000]
LateTime  == [d |-> 20250102, t |-> 93000]

\* What a file of the export directory may hold: contents, size, mtime.
FileOptions ==
    { [report |-> ReportTag10,  size |-> 10, mod |-> EarlyTime],
      [report |-> ReportTag9,   size |-> 9,  mod |-> LateTime],
      [report |-> ReportTag1a,  size |-> 11, mod |-> EarlyTime],
      [report |-> ReportNoName, size |-> 4,  mod |-> EarlyTime],
      [report |-> Garbage,      size |-> 1,  mod |-> LateTime] }

PathAX  == <<"a", "/", "x", ".", "j", "s", "o", "n">>
PathAXT == <<"a", "/", "x", "-", "2", "0", "2", "5", "0", "1", "0", "1", "-",
             "0", "0", "0", "0", "0", "0", ".", "j", "s", "o", "n">>
PathAY  == <<"a", "/", "y", ".", "j", "s", "o", "n">>
PathBZ  == <<"b", "-", "z", ".", "j", "s", "o", "n">>

\* The relative paths at which report files appear.
Paths == {PathAX, PathAXT, PathAY, PathBZ}

\* The most files the export directory holds at a time.
MaxFiles == 3

Range(f) == {f[x] : x \in DOMAIN f}

\* The permutations of a finite set, as sequences: the orders in which a Go
\* map with these keys may be iterated.
PermSeqs(S) ==
    {q \in [1..Cardinality(S) -> S] : \A i, j \in DOMAIN q : i # j => q[i] # q[j]}

\* Whether filepath.Walk visits the file with path elements cp before the one
\* with elements cq: the names of a directory are read sorted, so the first
\* differing element decides.
RECURSIVE ElemsBefore(_, _)
ElemsBefore(cp, cq) ==
    IF cp = <<>> \/ cq = <<>> THEN cp = <<>> /\ cq # <<>>
    ELSE IF Head(cp) # Head(cq) THEN StrLess(Head(cp), Head(cq))
    ELSE ElemsBefore(Tail(cp), Tail(cq))

RECURSIVE WalkOrderOf(_, _)
WalkOrderOf(S, elems) ==
    IF S = {} THEN <<>>
    ELSE LET first == CHOOSE p \in S : \A q \in S \ {p} : ElemsBefore(elems[p], elems[q])
         IN  <<first>> \o WalkOrderOf(S \ {first}, elems)

\* The order in which filepath.Walk visits the files of S.
WalkOrder(S) == WalkOrderOf(S, [p \in S |-> Split(p, "/")])

\* walkJSONFiles on a directory that does not change during the walk: the
\* regular files with extension .json, as absolute paths in walk order.
walkJSONFiles(fs) ==
    LET rels == WalkOrder({p \in DOMAIN fs : PathExt(p) = JsonExt})
    IN  [i \in 1..Len(rels) |-> ExportDir \o <<"/">> \o rels[i]]

\* parseTrivyJSON: err when the file cannot be opened or does not decode.
parseTrivyJSON(fs, relPath) ==
    IF relPath \in DOMAIN fs /\ fs[relPath].report.decodes
    THEN [err |-> FALSE,
          ArtifactName |-> fs[relPath].report.ArtifactName,
          Results |-> fs[relPath].report.Results]
    ELSE [err |-> TRUE, ArtifactName |-> <<>>, Results |-> <<>>]

-----------------------------------------------------------------------------
(* Scan records *)

RECURSIVE Flatten(_)
Flatten(groups) ==
    IF groups = <<>> THEN <<>> ELSE Head(groups) \o Flatten(Tail(groups))

\* The label a vulnerability is counted under: upper-cased, "" as UNKNOWN.
SeverityLabel(severity) ==
    IF ToUpper(severity) = <<>> THEN UNKNOWN ELSE ToUpper(severity)

\* A histogram keyed by the labels as the report writes them.
CountSeveritiesAsWritten(results) ==
    LET labels == [i \in 1..Len(Flatten(results)) |->
                      IF Flatten(results)[i] = <<>> THEN UNKNOWN ELSE Flatten(results)[i]]
    IN  [l \in Range(labels) |-> Cardinality({i \in DOMAIN labels : labels[i] = l})]

\* severityCount after the two loops over Results and Vulnerabilities.
CountSeverities(results) ==
    LET labels == [i \in 1..Len(Flatten(results)) |-> SeverityLabel(Flatten(results)[i])]
    IN  [l \in Range(labels) |-> Cardinality({i \in DOMAIN labels : labels[i] = l})]

\* total after the two loops: one per vulnerability entry.
CountVulns(results) == Len(Flatten(results))

\* A record builder that prefers the names the path gives.
BuildScanSummaryPathFirst(relPath, size, modTime, report) ==
    LET scanTime == extractTimestampFromPath(relPath, modTime)
        byName   == IF report.err
                    THEN [project |-> <<>>, image |-> <<>>, tag |-> <<>>]
                    ELSE extractProjectImageTagFromArtifactName(report.ArtifactName)
        byPath   == extractProjectAndImageFromPath(relPath)
        usePath  == byPath.project # <<>> /\ byPath.image # <<>>
    IN  [Filename      |-> relPath,
         Size          |-> size,
         ModifiedAt    |-> scanTime,
         ArtifactName  |-> report.ArtifactName,
         ProjectName   |-> IF usePath THEN byPath.project ELSE byName.project,
         ImageName     |-> IF usePath THEN byPath.image ELSE byName.image,
         Tag           |-> byName.tag,
         TotalVulns    |-> IF report.err THEN 0 ELSE CountVulns(report.Results),
         SeverityCount |-> IF report.err THEN <<>> ELSE CountSeverities(report.Results)]

\* The ScanSummary a handler builds for one file from what os.Stat returned
\* (size, modTime) and what parseTrivyJSON returned.
BuildScanSummaryFrom(relPath, size, modTime, report) ==
    LET scanTime == extractTimestampFromPath(relPath, modTime)
        byName   == IF report.err
                    THEN [project |-> <<>>, image |-> <<>>, tag |-> <<>>]
                    ELSE extractProjectImageTagFromArtifactName(report.ArtifactName)
        byPath   == extractProjectAndImageFromPath(relPath)
        usePath  == (byName.project # <<>> /\ byName.image = <<>>)
                    \/ byName.project = <<>>
    IN  [Filename      |-> relPath,
         Size          |-> size,
         ModifiedAt    |-> scanTime,
         ArtifactName  |-> report.ArtifactName,
         ProjectName   |-> IF usePath THEN byPath.project ELSE byName.project,
         ImageName     |-> IF usePath THEN byPath.image ELSE byName.image,
         Tag           |-> byName.tag,
         TotalVulns    |-> IF report.err THEN 0 ELSE CountVulns(report.Results),
         SeverityCount |-> IF report.err THEN <<>> ELSE CountSeverities(report.Results)]

\* The ScanSummary of a file that does not change between os.Stat and the read.
BuildScanSummary(fs, relPath) ==
    BuildScanSummaryFrom(relPath, fs[relPath].size, fs[relPath].mod,
                         parseTrivyJSON(fs, relPath))

\* A loop that skips, with continue, the files that do not decode.
RECURSIVE ScanSummariesDecodedOnly(_, _)
ScanSummariesDecodedOnly(fs, jsonFiles) ==
    IF jsonFiles = <<>> THEN <<>>
    ELSE LET relPath == PathRel(ExportDir, Head(jsonFiles))
         IN  (IF relPath \in DOMAIN fs /\ ~parseTrivyJSON(fs, relPath).err
              THEN <<BuildScanSummary(fs, relPath)>>
              ELSE <<>>) \o ScanSummariesDecodedOnly(fs, Tail(jsonFiles))

\* The records of the files of jsonFiles that os.Stat still finds, in order.
RECURSIVE ScanSummaries(_, _)
ScanSummaries(fs, jsonFiles) ==
    IF jsonFiles = <<>> THEN <<>>
    ELSE LET relPath == PathRel(ExportDir, Head(jsonFiles))
         IN  (IF relPath \in DOMAIN fs
              THEN <<BuildScanSummary(fs, relPath)>>
              ELSE <<>>) \o ScanSummaries(fs, Tail(jsonFiles))

-----------------------------------------------------------------------------
(* Ranking and aggregation *)

\* A ranker that breaks ties by date, oldest first.
ScanLessOldestFirst(a, b) ==
    IF a.Tag # <<>> /\ b.Tag # <<>>
    THEN LET cmp == compareVersionTags(a.Tag, b.Tag)
         IN  IF cmp < 0 THEN FALSE
             ELSE IF cmp > 0 THEN TRUE
             ELSE Before(a.ModifiedAt, b.ModifiedAt)
    ELSE IF a.Tag = <<>> /\ b.Tag = <<>> THEN Before(a.ModifiedAt, b.ModifiedAt)
    ELSE IF a.Tag = <<>> THEN FALSE
    ELSE TRUE

\* A ranker that puts the scan without tag first.
ScanLessUntaggedFirst(a, b) ==
    IF a.Tag # <<>> /\ b.Tag # <<>>
    THEN LET cmp == compareVersionTags(a.Tag, b.Tag)
         IN  IF cmp < 0 THEN FALSE
             ELSE IF cmp > 0 THEN TRUE
             ELSE After(a.ModifiedAt, b.ModifiedAt)
    ELSE IF a.Tag = <<>> /\ b.Tag = <<>> THEN After(a.ModifiedAt, b.ModifiedAt)
    ELSE IF a.Tag = <<>> THEN TRUE
    ELSE FALSE

\* The less function given to sort.Slice: whether scan a goes before scan b.
ScanLess(a, b) ==
    IF a.Tag # <<>> /\ b.Tag # <<>>
    THEN LET cmp == compareVersionTags(a.Tag, b.Tag)
         IN  IF cmp < 0 THEN FALSE
             ELSE IF cmp > 0 THEN TRUE
             ELSE After(a.ModifiedAt, b.ModifiedAt)
    ELSE IF a.Tag = <<>> /\ b.Tag = <<>> THEN After(a.ModifiedAt, b.ModifiedAt)
    ELSE IF a.Tag = <<>> THEN FALSE
    ELSE TRUE

Swap(q, i, j) == [q EXCEPT ![i] = q[j], ![j] = q[i]]

\* sort.Slice on fewer than 7 elements is an insertion sort:
\* for i := 1; i < n; i++ { for j := i; j > 0 && less(j, j-1); j-- { swap } }
RECURSIVE InsertBack(_, _)
InsertBack(scans, j) ==
    IF j > 1 /\ ScanLess(scans[j], scans[j - 1])
    THEN InsertBack(Swap(scans, j, j - 1), j - 1)
    ELSE scans

RECURSIVE InsertionSort(_, _)
InsertionSort(scans, i) ==
    IF i > Len(scans) THEN scans
    ELSE InsertionSort(InsertBack(scans, i), i + 1)

SortScans(scans) == InsertionSort(scans, 2)

\* The image's totals after sorting: those of the first scan.
SummarizeImage(imageName, unsorted) ==
    LET scans == SortScans(unsorted)
    IN  IF Len(scans) > 0
        THEN [ImageName     |-> imageName,
              TotalVulns    |-> scans[1].TotalVulns,
              SeverityCount |-> scans[1].SeverityCount,
              LastScan      |-> scans[1].ModifiedAt,
              Scans         |-> scans]
        ELSE [ImageName     |-> imageName,
              TotalVulns    |-> 0,
              SeverityCount |-> <<>>,
              LastScan      |-> ZeroTime,
              Scans         |-> scans]

\* project.SeverityCount[severity] += count for every entry of an image's map.
AddCounts(total, counts) ==
    [l \in DOMAIN total \cup DOMAIN counts |->
        (IF l \in DOMAIN total THEN total[l] ELSE 0)
        + (IF l \in DOMAIN counts THEN counts[l] ELSE 0)]

RECURSIVE SumTotalVulns(_)
SumTotalVulns(scans) ==
    IF scans = <<>> THEN 0 ELSE Head(scans).TotalVulns + SumTotalVulns(Tail(scans))

\* An aggregation that adds every scan of an image's history to the project.
RECURSIVE AddImagesWithHistory(_, _)
AddImagesWithHistory(project, images) ==
    IF images = <<>> THEN project
    ELSE LET image == Head(images)
         IN  AddImagesWithHistory(
                 [project EXCEPT
                     !.TotalVulns    = @ + SumTotalVulns(image.Scans),
                     !.SeverityCount = AddCounts(@, image.SeverityCount),
                     !.Images        = Append(@, image),
                     !.LastScan      = IF After(image.LastScan, @)
                                       THEN image.LastScan ELSE @],
                 Tail(images))

\* The loop over a project's images, in the order the map yields them.
RECURSIVE AddImages(_, _)
AddImages(project, images) ==
    IF images = <<>> THEN project
    ELSE LET image == Head(images)
         IN  AddImages(
                 [project EXCEPT
                     !.TotalVulns    = @ + image.TotalVulns,
                     !.SeverityCount = AddCounts(@, image.SeverityCount),
                     !.Images        = Append(@, image),
                     !.LastScan      = IF After(image.LastScan, @)
                                       THEN image.LastScan ELSE @],
                 Tail(images))

\* Sort images by last scan date, newest first: the two nested loops.
RECURSIVE SortImagesInner(_, _, _)
SortImagesInner(images, i, j) ==
    IF j > Len(images) THEN images
    ELSE SortImagesInner(
             IF Before(images[i].LastScan, images[j].LastScan)
             THEN Swap(images, i, j) ELSE images,
             i, j + 1)

RECURSIVE SortImagesOuter(_, _)
SortImagesOuter(images, i) ==
    IF i > Len(images) - 1 THEN images
    ELSE SortImagesOuter(SortImagesInner(images, i, i + 1), i + 1)

SortImages(images) == SortImagesOuter(images, 1)

\* A grouping that puts every record under every project.
RecordsOfEveryProject(records, projectName) == records

\* The records grouped under one project of the projects map, in the order
\* of the files.
RecordsOf(records, projectName) ==
    SelectSeq(records, LAMBDA r : r.ProjectName = projectName)

\* The scans appended to one image of a project's images map.
ScansOf(records, imageName) ==
    SelectSeq(records, LAMBDA r : r.ImageName = imageName)

\* The keys of a project's images map.
ImagesOf(records) == {records[i].ImageName : i \in DOMAIN records}

\* The summary of a project from the records kept for it (one TotalScans++
\* and one append each), its images taken from the map in imageOrder.
SummarizeProject(records, projectName, imageOrder) ==
    LET images  == [i \in 1..Len(imageOrder) |->
                       SummarizeImage(imageOrder[i],
                                      ScansOf(records, imageOrder[i]))]
        start   == [ProjectName   |-> projectName,
                    TotalScans    |-> Len(records),
                    TotalVulns    |-> 0,
                    SeverityCount |-> <<>>,
                    Images        |-> <<>>,
                    LastScan      |-> ZeroTime]
        summed  == AddImages(start, images)
    IN  [summed EXCEPT !.Images = SortImages(@)]

\* A grouping that keeps the records without image.
GroupedWithoutImage(records) ==
    SelectSeq(records, LAMBDA r : r.ProjectName # <<>>)

\* The records list-all-projects groups: project and image both resolved.
Grouped(records) ==
    SelectSeq(records, LAMBDA r : r.ProjectName # <<>> /\ r.ImageName # <<>>)

ProjectNames(records) == {records[i].ProjectName : i \in DOMAIN records}

ImageNames(records, projectName) ==
    {records[i].ImageName : i \in {k \in DOMAIN records :
                                       records[k].ProjectName = projectName}}

\* The orders in which the images map of each project may be iterated.
ImageOrders(records) ==
    LET names == ProjectNames(records)
        all   == UNION {PermSeqs(ImageNames(records, n)) : n \in names}
    IN  {f \in [names -> all] : \A n \in names : f[n] \in PermSeqs(ImageNames(records, n))}

\* The second half of GET /api/projects: projectOrder and imageOrder are the
\* orders in which the projects map and the images maps are iterated.
SummarizeProjects(records, projectOrder, imageOrder) ==
    [i \in 1..Len(projectOrder) |->
        SummarizeProject(RecordsOf(records, projectOrder[i]), projectOrder[i],
                         imageOrder[projectOrder[i]])]

\* GET /api/projects
ListProjects(fs, projectOrder, imageOrder) ==
    SummarizeProjects(Grouped(ScanSummaries(fs, walkJSONFiles(fs))),
                      projectOrder, imageOrder)

\* A filter that compares project names without regard to case.
MatchingAnyCase(records, projectName) ==
    SelectSeq(records, LAMBDA r : ToUpper(r.ProjectName) = ToUpper(projectName)
                                  /\ r.ImageName # <<>>)

\* The records get-project keeps: the requested project, image resolved.
Matching(records, projectName) ==
    SelectSeq(records, LAMBDA r : r.ProjectName = projectName /\ r.ImageName # <<>>)

\* GET /api/projects/{projectName}
GetProject(fs, projectName, imageOrder) ==
    SummarizeProject(Matching(ScanSummaries(fs, walkJSONFiles(fs)), projectName),
                     projectName, imageOrder)

\* GET /api/scans
ListScans(fs) == ScanSummaries(fs, walkJSONFiles(fs))

-----------------------------------------------------------------------------
(* GET /api/scans/{path}: the detail of one report *)

DotDot == <<".", ".">>

\* The handler up to its answer: status, the path handed to parseTrivyJSON
\* (<<>> when no file read is attempted) and the number of vulnerabilities.
GetScanDetail(fs, filename) ==
    LET filePath == PathClean(PathJoin(ExportDir, filename))
        root     == PathClean(ExportDir)
        report   == parseTrivyJSON(fs, PathRel(root, filePath))
        rejected == [status |-> 400, opened |-> <<>>, totalVulns |-> 0]
    IN  IF filename = <<>> THEN rejected
        ELSE IF Contains(filename, DotDot) THEN rejected
        ELSE IF ~HasPrefix(filePath, root \o <<"/">>) /\ filePath # root THEN rejected
        ELSE IF report.err
             THEN [status |-> 404, opened |-> filePath, totalVulns |-> 0]
        ELSE [status |-> 200, opened |-> filePath,
              totalVulns |-> Len(Flatten(report.Results))]

-----------------------------------------------------------------------------
(* The state machine: the export directory changes, queries are answered *)

NoResp == [kind |-> "none"]

\* The project names a client asks for: one that occurs and one that does not.
AskedProjects == {<<"a">>, <<"c">>}

\* The path identifiers a client asks the detail of.
AskedDetails ==
    { PathAX, PathBZ,
      <<".">>,
      <<"/">>,
      <<"a", "/", ".">>,
      <<".", ".", "/", "e", "t", "c">>,
      <<"a", "/", ".", ".", "/", ".", ".", "/", "e", "t", "c">>,
      <<"a", ".", ".", "j", "s", "o", "n">> }

DirInit == files = <<>> /\ resp = NoResp /\ prevResp = NoResp

QueryIdle ==
    /\ qpc = "idle" /\ qkind = [kind |-> "none", arg |-> <<>>]
    /\ qnames = <<>> /\ qfound = <<>> /\ qtodo = <<>> /\ qscans = <<>>
    /\ qstable = {}

NoGrade == [grade |-> "", color |-> ""]

GradeIdle == gh = <<>> /\ gh2 = <<>> /\ gr = NoGrade /\ gr2 = NoGrade

NoName == [project |-> <<>>, image |-> <<>>, tag |-> <<>>]

NameIdle ==
    /\ an = [project |-> <<>>, image |-> <<>>, tag |-> <<>>, name |-> <<>>]
    /\ anOut = [done |-> FALSE, result |-> NoName]

NoPair == [project |-> <<>>, image |-> <<>>]

RankIdle == rkScans = <<>> /\ rkSorted = [done |-> FALSE, scans |-> <<>>, cmp |-> <<>>]

PathIdle ==
    /\ pl = [project |-> <<>>, image |-> <<>>, layout |-> "", path |-> <<>>]
    /\ plOut = [done |-> FALSE, result |-> NoPair]

AllReadable == denied = {}

StampIdle ==
    /\ ts = [dir |-> <<>>, name |-> <<>>, fallback |-> ZeroTime]
    /\ tsOut = [names |-> <<>>, timed |-> FALSE, time |-> ZeroTime]

RestIdle == RankIdle /\ PathIdle /\ AllReadable /\ StampIdle

dirVars   == <<files, resp, prevResp>>
queryVars == <<qpc, qkind, qnames, qfound, qtodo, qscans>>
walkVars  == <<queryVars, qstable>>
gradeVars == <<gh, gh2, gr, gr2>>
nameVars  == <<an, anOut>>
rankVars  == <<rkScans, rkSorted>>
pathVars  == <<pl, plOut>>
stampVars == <<ts, tsOut>>
restVars  == <<rankVars, pathVars, denied, stampVars>>

\* A report file appears under the export root.
CreateFile(p, o) ==
    /\ p \notin DOMAIN files
    /\ Cardinality(DOMAIN files) < MaxFiles
    /\ files' = (p :> o) @@ files
    /\ resp' = NoResp
    /\ prevResp' = NoResp
    /\ UNCHANGED <<walkVars, gradeVars, nameVars, restVars>>

\* A report file is removed (manual cleanup of the export directory).
DeleteFile(p) ==
    /\ p \in DOMAIN files
    /\ files' = [q \in DOMAIN files \ {p} |-> files[q]]
    /\ resp' = NoResp
    /\ prevResp' = NoResp
    /\ qstable' = qstable \ {p}
    /\ UNCHANGED <<queryVars, gradeVars, nameVars, restVars>>

\* The response replaces the last one, which is kept when it answered the
\* same query over the same directory.
Answer(kind, arg, status, body) ==
    /\ resp' = [kind |-> kind, arg |-> arg, status |-> status, body |-> body]
    /\ prevResp' = IF resp.kind = kind /\ resp.arg = arg THEN resp ELSE NoResp
    /\ UNCHANGED <<files, walkVars, gradeVars, nameVars, restVars>>

QueryScans == Answer("scans", <<>>, 200, ListScans(files))

QueryProjects ==
    LET records == Grouped(ScanSummaries(files, walkJSONFiles(files)))
    IN  \E projectOrder \in PermSeqs(ProjectNames(records)) :
        \E imageOrder \in ImageOrders(records) :
            Answer("projects", <<>>, 200,
                   SummarizeProjects(records, projectOrder, imageOrder))

QueryProject(name) ==
    LET records == Matching(ScanSummaries(files, walkJSONFiles(files)), name)
    IN  \E imageOrder \in PermSeqs(ImagesOf(records)) :
            Answer("project", name, 200, SummarizeProject(records, name, imageOrder))

QueryDetail(filename) ==
    LET r == GetScanDetail(files, filename)
    IN  Answer("detail", filename, r.status, r)

Init == DirInit /\ QueryIdle /\ GradeIdle /\ NameIdle /\ RestIdle

\* The directory changes and the three listing queries are answered.
Next ==
    \/ \E p \in Paths, o \in FileOptions : CreateFile(p, o)
    \/ \E p \in Paths : DeleteFile(p)
    \/ QueryScans
    \/ QueryProjects
    \/ \E name \in AskedProjects : QueryProject(name)

Spec == Init /\ [][Next]_vars

\* The directory changes and details are asked for.
NextDetail ==
    \/ \E p \in Paths, o \in FileOptions : CreateFile(p, o)
    \/ \E p \in Paths : DeleteFile(p)
    \/ \E filename \in AskedDetails : QueryDetail(filename)

SpecDetail == Init /\ [][NextDetail]_vars

-----------------------------------------------------------------------------
(* Files whose identity does not resolve, and projects that differ in case *)

\* A flat file name without hyphen: the path gives a project and no image.
PathW == <<"w", ".", "j", "s", "o", "n">>

ViewPaths == {PathW, PathAX, PathBZ}

ReportUpper ==
    [decodes |-> TRUE,
     ArtifactName |-> <<"A", "-", "x", ":", "9">>,
     Results |-> << <<LOW>> >>]

ViewOptions ==
    { [report |-> Garbage,      size |-> 1,  mod |-> LateTime],
      [report |-> ReportNoName, size |-> 4,  mod |-> EarlyTime],
      [report |-> ReportTag9,   size |-> 9,  mod |-> LateTime],
      [report |-> ReportUpper,  size |-> 12, mod |-> EarlyTime] }

\* The project names asked for: two that differ in case only, and the
\* project of the file whose image does not resolve.
ViewProjects == {<<"a">>, <<"A">>, <<"w">>}

NextViews ==
    \/ \E p \in ViewPaths, o \in ViewOptions : CreateFile(p, o)
    \/ \E p \in ViewPaths : DeleteFile(p)
    \/ QueryScans
    \/ QueryProjects
    \/ \E name \in ViewProjects : QueryProject(name)

SpecViews == Init /\ [][NextViews]_vars

-----------------------------------------------------------------------------
(* The pages of the dashboard: the lists, and what is opened from them *)

\* A report file whose name has two dots before its extension.
PathDots == <<"a", ".", ".", "j", "s", "o", "n">>

PagePaths == {PathAX, PathAY, PathBZ, PathDots}

PageOptions ==
    { [report |-> ReportTag10,  size |-> 10, mod |-> EarlyTime],
      [report |-> ReportTag9,   size |-> 9,  mod |-> LateTime],
      [report |-> ReportNoName, size |-> 4,  mod |-> EarlyTime],
      [report |-> Garbage,      size |-> 1,  mod |-> LateTime] }

\* The response to a request the page makes with the last response at hand,
\* which the page keeps.
AnswerNext(kind, arg, status, body) ==
    /\ resp' = [kind |-> kind, arg |-> arg, status |-> status, body |-> body]
    /\ prevResp' = resp
    /\ UNCHANGED <<files, walkVars, gradeVars, nameVars, restVars>>

\* The page has allScans and fetches /api/projects.
FetchProjects ==
    /\ resp.kind = "scans"
    /\ LET records == Grouped(ScanSummaries(files, walkJSONFiles(files)))
       IN  \E projectOrder \in PermSeqs(ProjectNames(records)) :
           \E imageOrder \in ImageOrders(records) :
               AnswerNext("projects", <<>>, 200,
                          SummarizeProjects(records, projectOrder, imageOrder))

\* A project of the list is selected: /api/projects/{selectedProject}.
SelectProject(i) ==
    /\ resp.kind = "projects"
    /\ i \in DOMAIN resp.body
    /\ LET name    == resp.body[i].ProjectName
           records == Matching(ScanSummaries(files, walkJSONFiles(files)), name)
       IN  \E imageOrder \in PermSeqs(ImagesOf(records)) :
               AnswerNext("project", name, 200,
                          SummarizeProject(records, name, imageOrder))

\* A scan of the list is selected: /api/scans/{selectedFilename}.
SelectScan(i) ==
    /\ resp.kind = "scans"
    /\ i \in DOMAIN resp.body
    /\ LET r == GetScanDetail(files, resp.body[i].Filename)
       IN  AnswerNext("detail", resp.body[i].Filename, r.status, r)

NextPages ==
    \/ \E p \in PagePaths, o \in PageOptions : CreateFile(p, o)
    \/ \E p \in PagePaths : DeleteFile(p)
    \/ QueryScans
    \/ FetchProjects
    \/ \E i \in 1..MaxFiles : SelectProject(i)
    \/ \E i \in 1..MaxFiles : SelectScan(i)

SpecPages == Init /\ [][NextPages]_vars

\* perImage after the page's loop over allScans: per image of the project,
\* the scan that is later than every scan before it in the list.
RECURSIVE perImage(_, _, _)
perImage(allScans, projectName, kept) ==
    IF allScans = <<>> THEN kept
    ELSE LET scan == Head(allScans)
         IN  IF scan.ProjectName # projectName \/ scan.ImageName = <<>>
             THEN perImage(Tail(allScans), projectName, kept)
             ELSE IF \/ scan.ImageName \notin DOMAIN kept
                     \/ After(scan.ModifiedAt, kept[scan.ImageName].ModifiedAt)
                  THEN perImage(Tail(allScans), projectName,
                                (scan.ImageName :> scan) @@ kept)
             ELSE perImage(Tail(allScans), projectName, kept)

\* latestTotalVulns: the sum over Object.values(perImage).
RECURSIVE latestTotalVulns(_)
latestTotalVulns(kept) ==
    IF DOMAIN kept = {} THEN 0
    ELSE LET img == CHOOSE k \in DOMAIN kept : TRUE
         IN  kept[img].TotalVulns
                 + latestTotalVulns([k \in DOMAIN kept \ {img} |-> kept[k]])

\* latestSeverity: per label, the sum over Object.values(perImage); a label
\* that no kept scan has is not a key.
RECURSIVE latestSeverity(_)
latestSeverity(kept) ==
    IF DOMAIN kept = {} THEN <<>>
    ELSE LET img == CHOOSE k \in DOMAIN kept : TRUE
         IN  AddCounts(latestSeverity([k \in DOMAIN kept \ {img} |-> kept[k]]),
                       kept[img].SeverityCount)

-----------------------------------------------------------------------------
(* Reports whose artifact name does not parse, and labels in any case *)

\* An artifact name that is a tag only; labels in mixed case, one absent.
ReportTagOnly ==
    [decodes |-> TRUE,
     ArtifactName |-> <<":", "9">>,
     Results |-> << <<<<"H", "i", "g", "h">>, HIGH>>, <<<<>>>> >>]

RecordOptions ==
    { [report |-> Garbage,       size |-> 1, mod |-> LateTime],
      [report |-> ReportNoName,  size |-> 4, mod |-> EarlyTime],
      [report |-> ReportTag9,    size |-> 9, mod |-> LateTime],
      [report |-> ReportTagOnly, size |-> 7, mod |-> EarlyTime] }

NextRecords ==
    \/ \E p \in ViewPaths, o \in RecordOptions : CreateFile(p, o)
    \/ \E p \in ViewPaths : DeleteFile(p)
    \/ QueryScans
    \/ QueryProjects
    \/ \E name \in ViewProjects : QueryProject(name)

SpecRecords == Init /\ [][NextRecords]_vars

-----------------------------------------------------------------------------
(* A query step by step, while the export directory changes under it *)

\* What a file of the directory may hold while a query is under way.
BusyOptions ==
    { [report |-> ReportTag10, size |-> 10, mod |-> EarlyTime],
      [report |-> Garbage,     size |-> 1,  mod |-> LateTime] }

\* The paths at which files appear and disappear while a query is under way.
BusyPaths == {PathAX, PathAY, PathBZ}

\* The queries that walk the export directory.
WalkingQueries ==
    { [kind |-> "scans",    arg |-> <<>>],
      [kind |-> "projects", arg |-> <<>>],
      [kind |-> "project",  arg |-> <<"a">>] }

RECURSIVE SortNames(_)
SortNames(S) ==
    IF S = {} THEN <<>>
    ELSE LET first == CHOOSE n \in S : \A m \in S \ {n} : StrLess(n, m)
         IN  <<first>> \o SortNames(S \ {first})

\* The relative paths of the files beneath directory dir (<<>> is the root).
Beneath(fs, dir) ==
    IF dir = <<>> THEN DOMAIN fs
    ELSE {p \in DOMAIN fs : HasPrefix(p, dir \o <<"/">>)}

\* readDirNames: the entries of a directory, sorted, as relative paths.
ReadDirNames(fs, dir) ==
    LET prefix == IF dir = <<>> THEN <<>> ELSE dir \o <<"/">>
    IN  SortNames({prefix \o Split(TrimPrefix(p, prefix), "/")[1] : p \in Beneath(fs, dir)})

\* Whether a name is that of a directory of the export tree. Cleanup removes
\* files, not directories: a directory outlives its files.
IsDirName(name) == \E p \in Paths : HasPrefix(p, name \o <<"/">>)

NoStat == [done |-> FALSE, size |-> 0, mod |-> ZeroTime]

\* A handler starts: filepath.Walk stats the root and reads its names. When
\* the root cannot be read the walk function is handed the error and returns
\* it, which ends the walk and the handler (500).
StartQuery(q) ==
    /\ qpc \in {"idle", "done", "failed"}
    /\ qkind' = q
    /\ qfound' = <<>>
    /\ qtodo' = <<>>
    /\ qscans' = <<>>
    /\ qstable' = DOMAIN files
    /\ IF <<>> \in denied
       THEN /\ qpc' = "failed"
            /\ qnames' = <<>>
            /\ resp' = [kind |-> q.kind, arg |-> q.arg, status |-> 500, body |-> <<>>]
       ELSE /\ qpc' = "walk"
            /\ qnames' = ReadDirNames(files, <<>>)
            /\ resp' = NoResp
    /\ UNCHANGED <<files, prevResp, gradeVars, nameVars, restVars>>

\* filepath.Walk takes the next name: lstat, then the walk function. When lstat
\* fails the walk function returns the error, which ends the walk and the
\* handler (500). A directory's names are read in the same step; when they
\* cannot be read the walk function returns that error, to the same end.
WalkStep ==
    /\ qpc = "walk"
    /\ qnames # <<>>
    /\ LET name == Head(qnames)
       IN  IF name \in DOMAIN files
           THEN /\ qfound' = IF PathExt(name) = JsonExt
                             THEN Append(qfound, ExportDir \o <<"/">> \o name)
                             ELSE qfound
                /\ qnames' = Tail(qnames)
                /\ UNCHANGED <<qpc, resp>>
           ELSE IF IsDirName(name) /\ name \notin denied
           THEN /\ qnames' = ReadDirNames(files, name) \o Tail(qnames)
                /\ UNCHANGED <<qpc, qfound, resp>>
           ELSE /\ qpc' = "failed"
                /\ resp' = [kind |-> qkind.kind, arg |-> qkind.arg,
                            status |-> 500, body |-> <<>>]
                /\ UNCHANGED <<qnames, qfound>>
    /\ UNCHANGED <<files, prevResp, qkind, qtodo, qscans, qstable, gradeVars, nameVars, restVars>>

\* walkJSONFiles returns without error: the handler's loop begins.
WalkDone ==
    /\ qpc = "walk"
    /\ qnames = <<>>
    /\ qpc' = "files"
    /\ qtodo' = [i \in 1..Len(qfound) |-> [path |-> qfound[i], stat |-> NoStat]]
    /\ UNCHANGED <<dirVars, qkind, qnames, qfound, qscans, qstable, gradeVars, nameVars, restVars>>

\* os.Stat of the next file: on error the loop continues with the one after.
StatStep ==
    /\ qpc = "files"
    /\ qtodo # <<>>
    /\ ~Head(qtodo).stat.done
    /\ LET relPath == PathRel(ExportDir, Head(qtodo).path)
       IN  qtodo' = IF relPath \in DOMAIN files
                    THEN [qtodo EXCEPT ![1].stat =
                             [done |-> TRUE, size |-> files[relPath].size,
                              mod |-> files[relPath].mod]]
                    ELSE Tail(qtodo)
    /\ UNCHANGED <<dirVars, qpc, qkind, qnames, qfound, qscans, qstable, gradeVars, nameVars, restVars>>

\* parseTrivyJSON of the file and the rest of the loop body.
ParseStep ==
    /\ qpc = "files"
    /\ qtodo # <<>>
    /\ Head(qtodo).stat.done
    /\ LET relPath == PathRel(ExportDir, Head(qtodo).path)
       IN  qscans' = Append(qscans,
                            BuildScanSummaryFrom(relPath, Head(qtodo).stat.size,
                                                 Head(qtodo).stat.mod,
                                                 parseTrivyJSON(files, relPath)))
    /\ qtodo' = Tail(qtodo)
    /\ UNCHANGED <<dirVars, qpc, qkind, qnames, qfound, qstable, gradeVars, nameVars, restVars>>

\* The loop is over: the handler aggregates and answers.
FinishQuery ==
    /\ qpc = "files"
    /\ qtodo = <<>>
    /\ qpc' = "done"
    /\ \/ /\ qkind.kind = "scans"
          /\ resp' = [kind |-> "scans", arg |-> <<>>, status |-> 200, body |-> qscans]
       \/ /\ qkind.kind = "projects"
          /\ \E projectOrder \in PermSeqs(ProjectNames(Grouped(qscans))) :
             \E imageOrder \in ImageOrders(Grouped(qscans)) :
                 resp' = [kind |-> "projects", arg |-> <<>>, status |-> 200,
                          body |-> SummarizeProjects(Grouped(qscans),
                                                     projectOrder, imageOrder)]
       \/ /\ qkind.kind = "project"
          /\ \E imageOrder \in PermSeqs(ImagesOf(Matching(qscans, qkind.arg))) :
                 resp' = [kind |-> "project", arg |-> qkind.arg, status |-> 200,
                          body |-> SummarizeProject(Matching(qscans, qkind.arg),
                                                    qkind.arg, imageOrder)]
    /\ UNCHANGED <<files, prevResp, qkind, qnames, qfound, qtodo, qscans, qstable,
                   gradeVars, nameVars, restVars>>

\* A query runs while report files are created and deleted.
NextBusy ==
    \/ \E p \in BusyPaths, o \in BusyOptions : CreateFile(p, o)
    \/ \E p \in BusyPaths : DeleteFile(p)
    \/ \E q \in WalkingQueries : StartQuery(q)
    \/ WalkStep
    \/ WalkDone
    \/ StatStep
    \/ ParseStep
    \/ FinishQuery

SpecBusy == Init /\ [][NextBusy]_vars

-----------------------------------------------------------------------------
(* Queries over an export tree with directories that cannot be read *)

\* The directories whose permissions change: the export root and a.
DeniedDirs == {<<>>, <<"a">>}

\* A directory loses its read permission.
Deny(dir) ==
    /\ qpc = "idle"
    /\ dir \notin denied
    /\ denied' = denied \cup {dir}
    /\ UNCHANGED <<dirVars, walkVars, gradeVars, nameVars, rankVars, pathVars, stampVars>>

\* A directory gets its read permission back.
Allow(dir) ==
    /\ qpc = "idle"
    /\ dir \in denied
    /\ denied' = denied \ {dir}
    /\ UNCHANGED <<dirVars, walkVars, gradeVars, nameVars, rankVars, pathVars, stampVars>>

\* The tree is set up, files and permissions, and then queried step by step.
NextDenied ==
    \/ \E p \in BusyPaths, o \in BusyOptions : qpc = "idle" /\ CreateFile(p, o)
    \/ \E p \in BusyPaths : qpc = "idle" /\ DeleteFile(p)
    \/ \E dir \in DeniedDirs : Deny(dir)
    \/ \E dir \in DeniedDirs : Allow(dir)
    \/ \E q \in WalkingQueries : StartQuery(q)
    \/ WalkStep
    \/ WalkDone
    \/ StatStep
    \/ ParseStep
    \/ FinishQuery

SpecDenied == Init /\ [][NextDenied]_vars

-----------------------------------------------------------------------------
(* The grade calculator of the UI *)

\* severityCount[label] || 0
CountOr0(severityCount, label) ==
    IF label \in DOMAIN severityCount THEN severityCount[label] ELSE 0

\* A grade calculator whose first row also asks for no LOW findings.
calculateGradeCountingLow(severityCount) ==
    LET critical == CountOr0(severityCount, CRITICAL)
        high     == CountOr0(severityCount, HIGH)
        medium   == CountOr0(severityCount, MEDIUM)
        low      == CountOr0(severityCount, LOW)
    IN  IF critical = 0 /\ high <= 2 /\ medium <= 5 /\ low = 0
        THEN [grade |-> "A", color |-> "catppuccin-green"]
        ELSE IF critical = 0 /\ high <= 5 /\ medium <= 10
        THEN [grade |-> "B", color |-> "catppuccin-blue"]
        ELSE IF critical <= 2 /\ high <= 8 /\ medium <= 15
        THEN [grade |-> "C", color |-> "catppuccin-yellow"]
        ELSE [grade |-> "D", color |-> "catppuccin-red"]

\* A grade calculator whose first row compares MEDIUM the wrong way round.
calculateGradeWrongSign(severityCount) ==
    LET critical == CountOr0(severityCount, CRITICAL)
        high     == CountOr0(severityCount, HIGH)
        medium   == CountOr0(severityCount, MEDIUM)
    IN  IF critical = 0 /\ high <= 2 /\ medium >= 5
        THEN [grade |-> "A", color |-> "catppuccin-green"]
        ELSE IF critical = 0 /\ high <= 5 /\ medium <= 10
        THEN [grade |-> "B", color |-> "catppuccin-blue"]
        ELSE IF critical <= 2 /\ high <= 8 /\ medium <= 15
        THEN [grade |-> "C", color |-> "catppuccin-yellow"]
        ELSE [grade |-> "D", color |-> "catppuccin-red"]

calculateGrade(severityCount) ==
    LET critical == CountOr0(severityCount, CRITICAL)
        high     == CountOr0(severityCount, HIGH)
        medium   == CountOr0(severityCount, MEDIUM)
        low      == CountOr0(severityCount, LOW)
    IN  IF critical = 0 /\ high <= 2 /\ medium <= 5
        THEN [grade |-> "A", color |-> "catppuccin-green"]
        ELSE IF critical = 0 /\ high <= 5 /\ medium <= 10
        THEN [grade |-> "B", color |-> "catppuccin-blue"]
        ELSE IF critical <= 2 /\ high <= 8 /\ medium <= 15
        THEN [grade |-> "C", color |-> "catppuccin-yellow"]
        ELSE [grade |-> "D", color |-> "catppuccin-red"]

\* The largest counts of the histograms graded.
MaxCritical == 3
MaxHigh     == 9
MaxMedium   == 16
MaxLow      == 1
\* The most a count is increased by.
MaxIncrease == 2

GradedLabels == {CRITICAL, HIGH, MEDIUM, LOW, UNKNOWN}

Histograms ==
    {  (CRITICAL :> c) @@ (HIGH :> h) @@ (MEDIUM :> m) @@ (LOW :> l) :
           c \in 0..MaxCritical, h \in 0..MaxHigh, m \in 0..MaxMedium, l \in 0..MaxLow }

GradeInit ==
    /\ gh \in Histograms
    /\ gh2 = gh
    /\ gr = NoGrade
    /\ gr2 = NoGrade

\* A second histogram: one count of the first increased.
IncreaseCount(label, n) ==
    /\ gr = NoGrade
    /\ gh2 = gh
    /\ gh2' = (label :> CountOr0(gh, label) + n) @@ gh
    /\ UNCHANGED <<gh, gr, gr2, dirVars, walkVars, nameVars, restVars>>

\* A second histogram: a key whose count is 0 left out.
DropZeroKey(label) ==
    /\ gr = NoGrade
    /\ gh2 = gh
    /\ label \in DOMAIN gh
    /\ gh[label] = 0
    /\ gh2' = [l \in DOMAIN gh \ {label} |-> gh[l]]
    /\ UNCHANGED <<gh, gr, gr2, dirVars, walkVars, nameVars, restVars>>

\* Both histograms are graded.
GradeBoth ==
    /\ gr = NoGrade
    /\ gr' = calculateGrade(gh)
    /\ gr2' = calculateGrade(gh2)
    /\ UNCHANGED <<gh, gh2, dirVars, walkVars, nameVars, restVars>>

NextGrade ==
    \/ \E label \in GradedLabels, n \in 1..MaxIncrease : IncreaseCount(label, n)
    \/ \E label \in GradedLabels : DropZeroKey(label)
    \/ GradeBoth

InitGrade == GradeInit /\ DirInit /\ QueryIdle /\ NameIdle /\ RestIdle

SpecGrade == InitGrade /\ [][NextGrade]_vars

-----------------------------------------------------------------------------
(* Artifact names built from their parts *)

\* The longest project and image names, and the longest tag, that are built.
MaxNameLen == 2
MaxTagLen  == 2

StringsUpTo(alphabet, n) == UNION {[1..k -> alphabet] : k \in 0..n}

\* Project and image names: no hyphen.
BuiltNames == StringsUpTo({"a", ":"}, MaxNameLen)

\* Tags: any character.
BuiltTags == StringsUpTo({"1", ":", "-"}, MaxTagLen)

NameInit ==
    /\ \E project \in BuiltNames, image \in BuiltNames, tag \in BuiltTags :
           an = [project |-> project, image |-> image, tag |-> tag,
                 name |-> project \o <<"-">> \o image \o <<":">> \o tag]
    /\ anOut = [done |-> FALSE, result |-> NoName]

ResolveName ==
    /\ ~anOut.done
    /\ anOut' = [done |-> TRUE,
                 result |-> extractProjectImageTagFromArtifactName(an.name)]
    /\ UNCHANGED <<an, dirVars, walkVars, gradeVars, restVars>>

NextName == ResolveName

InitName == NameInit /\ DirInit /\ QueryIdle /\ GradeIdle /\ RestIdle

SpecName == InitName /\ [][NextName]_vars

-----------------------------------------------------------------------------
(* Any artifact name *)

\* The longest artifact name resolved.
MaxArtifactLen == 4

ArtifactNames == StringsUpTo({"a", "-", ":"}, MaxArtifactLen)

AnyNameInit ==
    /\ \E name \in ArtifactNames :
           an = [project |-> <<>>, image |-> <<>>, tag |-> <<>>, name |-> name]
    /\ anOut = [done |-> FALSE, result |-> NoName]

InitAnyName == AnyNameInit /\ DirInit /\ QueryIdle /\ GradeIdle /\ RestIdle

SpecAnyName == InitAnyName /\ [][NextName]_vars

-----------------------------------------------------------------------------
(* Report files laid out under the export root *)

\* The longest project and image names laid out, the longer ones below aside.
MaxProjectLen == 3
MaxImageLen   == 2

Stamp == <<"2", "0", "2", "5", "0", "1", "0", "1", "-", "0", "0", "0", "0", "0", "0">>

\* Project names: with hyphens and digits, and two that end like a date.
LaidProjects ==
    StringsUpTo({"p", "-", "1"}, MaxProjectLen)
        \cup { <<"p", "-", "2", "0", "2", "5", "0", "1", "0", "1">>,
               <<"2", "0", "2", "5", "0", "1", "0", "1">> }

\* Image names, and one that looks like a time of day.
LaidImages ==
    StringsUpTo({"i", "-", "0"}, MaxImageLen) \cup { <<"0", "0", "0", "0", "0", "0">> }

\* The four supported layouts of the README.
Layouts == {"flat", "flat-stamped", "dir", "dir-stamped"}

LaidOut(project, image, layout) ==
    CASE layout = "flat"         -> project \o <<"-">> \o image \o JsonExt
      [] layout = "flat-stamped" -> project \o <<"-">> \o image \o <<"-">> \o Stamp \o JsonExt
      [] layout = "dir"          -> project \o <<"/">> \o image \o JsonExt
      [] layout = "dir-stamped"  -> project \o <<"/">> \o image \o <<"-">> \o Stamp \o JsonExt

PathInit ==
    /\ \E project \in LaidProjects, image \in LaidImages, layout \in Layouts :
           pl = [project |-> project, image |-> image, layout |-> layout,
                 path |-> LaidOut(project, image, layout)]
    /\ plOut = [done |-> FALSE, result |-> NoPair]

ResolvePath ==
    /\ ~plOut.done
    /\ plOut' = [done |-> TRUE, result |-> extractProjectAndImageFromPath(pl.path)]
    /\ UNCHANGED <<pl, dirVars, walkVars, gradeVars, nameVars, rankVars, denied, stampVars>>

NextPath == ResolvePath

InitPath ==
    /\ PathInit /\ DirInit /\ QueryIdle /\ GradeIdle /\ NameIdle
    /\ RankIdle /\ AllReadable /\ StampIdle

SpecPath == InitPath /\ [][NextPath]_vars

-----------------------------------------------------------------------------
(* Report files at any depth under the export root *)

\* The most path elements of a walked report file, its name included.
MaxDepth == 3

\* The names of the directories walked through.
WalkedDirs == {<<"a">>, <<"b">>, <<"a", "-", "b">>}

\* File names without extension: none (the file .json), plain, hyphenated,
\* with a timestamp, and a timestamp alone.
WalkedStems ==
    { <<>>,
      <<"c">>,
      <<"c", "-", "d">>,
      <<"c", "-">> \o Stamp,
      <<"-">> \o Stamp }

\* The relative paths filepath.Rel gives for the files Walk finds: directory
\* names joined by single separators, then the file name.
WalkedPaths ==
    { JoinWith(dirs \o <<stem \o JsonExt>>, <<"/">>) :
          dirs \in UNION {[1..k -> WalkedDirs] : k \in 0..(MaxDepth - 1)},
          stem \in WalkedStems }

WalkedInit ==
    /\ \E path \in WalkedPaths :
           pl = [project |-> <<>>, image |-> <<>>, layout |-> "walked", path |-> path]
    /\ plOut = [done |-> FALSE, result |-> NoPair]

InitWalked ==
    /\ WalkedInit /\ DirInit /\ QueryIdle /\ GradeIdle /\ NameIdle
    /\ RankIdle /\ AllReadable /\ StampIdle

SpecWalked == InitWalked /\ [][NextPath]_vars

-----------------------------------------------------------------------------
(* The timestamp subroutines on file names *)

\* The longest name before a timestamp, and the most strippings in a row.
MaxStemLen == 2
MaxStrips  == 2

\* How a file name may end: in nothing, in the timestamp of the README's
\* example, in two timestamps, in digits that are no date or no time, in a
\* leap day, and in 16 characters of another shape.
StampEndings ==
    { <<>>,
      <<"-", "2", "0", "2", "5", "1", "1", "2", "6", "-", "1", "8", "2", "0", "0", "0">>,
      <<"-">> \o Stamp \o <<"-">> \o Stamp,
      <<"-", "2", "0", "2", "5", "0", "2", "3", "0", "-", "0", "0", "0", "0", "0", "0">>,
      <<"-", "2", "0", "2", "5", "1", "3", "0", "1", "-", "0", "0", "0", "0", "0", "0">>,
      <<"-", "2", "0", "2", "5", "0", "1", "0", "0", "-", "0", "0", "0", "0", "0", "0">>,
      <<"-", "2", "0", "2", "5", "0", "1", "0", "1", "-", "2", "4", "0", "0", "0", "0">>,
      <<"-", "2", "0", "2", "5", "0", "1", "0", "1", "-", "2", "3", "5", "9", "6", "0">>,
      <<"-", "2", "0", "2", "4", "0", "2", "2", "9", "-", "2", "3", "5", "9", "5", "9">>,
      <<"-", "2", "0", "2", "5", "0", "2", "2", "9", "-", "2", "3", "5", "9", "5", "9">>,
      <<"-", "2", "0", "2", "5", "0", "1", "0", "a", "-", "0", "0", "0", "0", "0", "0">>,
      <<"-", "2", "0", "2", "5", "0", "1", "0", "1", "0", "-", "0", "0", "0", "0", "0">>,
      <<"-", "2", "0", "2", "5", "0", "1", "0", "1", "-", "0", "0", "0", "0", "0">>,
      <<"2", "0", "2", "5", "0", "1", "0", "1", "0", "-", "0", "0", "0", "0", "0", "0">> }

StampedNames ==
    {stem \o ending : stem \in StringsUpTo({"b", "-"}, MaxStemLen),
                      ending \in StampEndings}

StampInit ==
    /\ \E name \in StampedNames, dir \in {<<>>, <<"a", "/">>},
          fallback \in {EarlyTime, LateTime} :
           ts = [dir |-> dir, name |-> name, fallback |-> fallback]
    /\ tsOut = [names |-> <<>>, timed |-> FALSE, time |-> ZeroTime]

\* removeTimestampFromFilename is applied to the name, or to what the
\* stripping before it returned.
StripTimestamp ==
    /\ Len(tsOut.names) < MaxStrips
    /\ tsOut' = [tsOut EXCEPT !.names =
                     Append(@, removeTimestampFromFilename(
                                   IF @ = <<>> THEN ts.name ELSE @[Len(@)]))]
    /\ UNCHANGED <<ts, dirVars, walkVars, gradeVars, nameVars, rankVars, pathVars, denied>>

\* extractTimestampFromPath is applied to the path of the file.
ReadTimestamp ==
    /\ ~tsOut.timed
    /\ tsOut' = [tsOut EXCEPT !.timed = TRUE,
                              !.time = extractTimestampFromPath(
                                           ts.dir \o ts.name \o JsonExt, ts.fallback)]
    /\ UNCHANGED <<ts, dirVars, walkVars, gradeVars, nameVars, rankVars, pathVars, denied>>

NextStamp == StripTimestamp \/ ReadTimestamp

InitStamp ==
    /\ StampInit /\ DirInit /\ QueryIdle /\ GradeIdle /\ NameIdle
    /\ RankIdle /\ PathIdle /\ AllReadable

SpecStamp == InitStamp /\ [][NextStamp]_vars

-----------------------------------------------------------------------------
(* The ranker on the scans of one image *)

\* The tags of the scans ranked; <<>> is a scan without tag.
RankedTags ==
    { <<>>,
      <<"9">>, <<"1", "0">>, <<"1", "a">>,
      <<"2", ".", "1", "0", ".", "0">>, <<"2", ".", "9", ".", "0">>,
      <<"1", ".", "0">>, <<"1", ".", "0", ".", "0">>, <<"v", "1", ".", "0">>,
      <<"1", ".", "0", ".", "-", "1">> }

\* The number of scans ranked.
MaxRanked == 3

RankedScans == [Tag : RankedTags, ModifiedAt : {EarlyTime, LateTime}]

NotRanked == [done |-> FALSE, scans |-> <<>>, cmp |-> <<>>]

RankInit ==
    /\ rkScans \in [1..MaxRanked -> RankedScans]
    /\ rkSorted = NotRanked

\* sort.Slice(scans, less) on the scans of the image; cmp[i][j] is what
\* compareVersionTags returns for the tags of scans i and j.
RankScans ==
    /\ ~rkSorted.done
    /\ rkSorted' =
           [done  |-> TRUE,
            scans |-> SortScans(rkScans),
            cmp   |-> [i \in DOMAIN rkScans |->
                          [j \in DOMAIN rkScans |->
                              compareVersionTags(rkScans[i].Tag, rkScans[j].Tag)]]]
    /\ UNCHANGED <<rkScans, dirVars, walkVars, gradeVars, nameVars, pathVars, denied, stampVars>>

NextRank == RankScans

InitRank ==
    /\ RankInit /\ DirInit /\ QueryIdle /\ GradeIdle /\ NameIdle
    /\ PathIdle /\ AllReadable /\ StampIdle

SpecRank == InitRank /\ [][NextRank]_vars

-----------------------------------------------------------------------------
(* Properties of the summaries *)

\* The project summaries of a response.
SummariesIn(r) ==
    IF r.kind = "projects" THEN Range(r.body)
    ELSE IF r.kind = "project" THEN {r.body}
    ELSE {}

\* The image summaries of a response.
ImagesIn(r) == UNION {Range(p.Images) : p \in SummariesIn(r)}

CountOf(counts, label) == IF label \in DOMAIN counts THEN counts[label] ELSE 0

RECURSIVE SumImageTotals(_)
SumImageTotals(images) ==
    IF images = <<>> THEN 0 ELSE Head(images).TotalVulns + SumImageTotals(Tail(images))

RECURSIVE SumImageCounts(_, _)
SumImageCounts(images, label) ==
    IF images = <<>> THEN 0
    ELSE CountOf(Head(images).SeverityCount, label) + SumImageCounts(Tail(images), label)

SeverityLabels == {CRITICAL, HIGH, MEDIUM, LOW, UNKNOWN}

\* C1: in list-all-projects and get-project, every project's totalVulns is the
\* sum of its images' totalVulns and, per severity label, its count is the sum
\* of its images' counts; nothing else (no history record) is added.
C1_ProjectTotalsAreSumOfImages ==
    \A p \in SummariesIn(resp) :
        /\ p.TotalVulns = SumImageTotals(p.Images)
        /\ \A l \in SeverityLabels \cup DOMAIN p.SeverityCount :
               CountOf(p.SeverityCount, l) = SumImageCounts(p.Images, l)

\* C1 witness: a project of two images with vulnerabilities, one of them with a
\* history of two scans that both have vulnerabilities.
C1_Witness ==
    \E p \in SummariesIn(resp) :
        /\ Len(p.Images) = 2
        /\ \A i \in 1..2 : p.Images[i].TotalVulns > 0
        /\ \E i \in 1..2 :
               /\ Len(p.Images[i].Scans) = 2
               /\ \A k \in 1..2 : p.Images[i].Scans[k].TotalVulns > 0

\* C2 (as claimed): every image's totals are those of the first record of its
\* scans list, and no record of the image ranks strictly before that first one.
C2_CurrentIsTopRanked ==
    \A im \in ImagesIn(resp) :
        Len(im.Scans) > 0 =>
            /\ im.TotalVulns = im.Scans[1].TotalVulns
            /\ im.SeverityCount = im.Scans[1].SeverityCount
            /\ \A i \in DOMAIN im.Scans : ~ScanLess(im.Scans[i], im.Scans[1])

MaxTimeOf(scans) ==
    CHOOSE t \in {scans[i].ModifiedAt : i \in DOMAIN scans} :
        \A i \in DOMAIN scans : ~After(scans[i].ModifiedAt, t)

\* C3 (as claimed): an image's lastScan is the greatest resolved timestamp of
\* its records, whatever their ranking, and a project's lastScan is the greatest
\* lastScan of its images.
C3_LastScanIsMaxTimestamp ==
    \A p \in SummariesIn(resp) :
        /\ \A i \in DOMAIN p.Images :
               p.Images[i].LastScan = MaxTimeOf(p.Images[i].Scans)
        /\ \A i \in DOMAIN p.Images : ~After(p.Images[i].LastScan, p.LastScan)
        /\ p.Images # <<>> => \E i \in DOMAIN p.Images : p.Images[i].LastScan = p.LastScan

SameTag(scans) == \A i, j \in DOMAIN scans : scans[i].Tag = scans[j].Tag

\* C4: when all records of an image carry the same tag, its current record is
\* one with the latest resolved timestamp and the image's total is that record's
\* total; a project made of that image alone has that record's total, not a sum.
C4_SameTagLatestWins ==
    \A p \in SummariesIn(resp) :
        \A i \in DOMAIN p.Images :
            LET im == p.Images[i]
            IN  SameTag(im.Scans) =>
                    /\ \A k \in DOMAIN im.Scans :
                           ~After(im.Scans[k].ModifiedAt, im.Scans[1].ModifiedAt)
                    /\ im.TotalVulns = im.Scans[1].TotalVulns
                    /\ Len(p.Images) = 1 => p.TotalVulns = im.Scans[1].TotalVulns

\* C4 witness: two files with ArtifactName a-x:10 and different resolved
\* timestamps; the project total is one record's total, half the sum.
C4_Witness ==
    \E p \in SummariesIn(resp) :
        /\ Len(p.Images) = 1
        /\ LET im == p.Images[1]
           IN  /\ Len(im.Scans) = 2
               /\ im.Scans[1].Tag = <<"1", "0">>
               /\ im.Scans[2].Tag = <<"1", "0">>
               /\ After(im.Scans[1].ModifiedAt, im.Scans[2].ModifiedAt)
               /\ p.TotalVulns = 2
               /\ SumTotalVulns(im.Scans) = 4

\* C5 (as claimed): answering list-all-projects or get-project twice over an
\* unchanged directory gives the same output, order of projects, images and
\* scans included.
C5_SameOutputTwice ==
    (resp.kind \in {"projects", "project"} /\ prevResp.kind = resp.kind)
        => prevResp.body = resp.body

-----------------------------------------------------------------------------
(* Properties of the detail lookup *)

\* Whether an absolute, cleaned path lies strictly inside the export root.
StrictlyInside(path) == HasPrefix(path, PathClean(ExportDir) \o <<"/">>)

\* C7 (as claimed): the file that get-scan-detail opens lies strictly inside the
\* export root, and an identifier that contains ".." or resolves to the root
\* itself or outside it is answered 400 without any file read.
C7_DetailStaysInsideRoot ==
    resp.kind = "detail" =>
        /\ resp.body.opened # <<>> => StrictlyInside(resp.body.opened)
        /\ (Contains(resp.arg, DotDot)
            \/ ~StrictlyInside(PathClean(ExportDir \o <<"/">> \o resp.arg)))
               => (resp.status = 400 /\ resp.body.opened = <<>>)

-----------------------------------------------------------------------------
(* Properties of a query under a changing directory *)

\* The file names a response reports.
ReportedFiles(r) ==
    IF r.kind = "scans" THEN {r.body[i].Filename : i \in DOMAIN r.body}
    ELSE UNION {{im.Scans[i].Filename : i \in DOMAIN im.Scans} : im \in ImagesIn(r)}

\* C6 (as claimed): whatever files are created or deleted while a query runs,
\* the query does not end in a hard failure, and every file that was there
\* throughout is reported (list-all-scans).
C6_NoHardFailure ==
    /\ qpc # "failed"
    /\ (qpc = "done" /\ resp.kind = "scans") => qstable \subseteq ReportedFiles(resp)

-----------------------------------------------------------------------------
(* Properties of the grade calculator *)

GradeRank(grade) ==
    CASE grade = "A" -> 4 [] grade = "B" -> 3 [] grade = "C" -> 2 [] grade = "D" -> 1

RowA(h) ==
    CountOr0(h, CRITICAL) = 0 /\ CountOr0(h, HIGH) <= 2 /\ CountOr0(h, MEDIUM) <= 5

RowB(h) ==
    CountOr0(h, CRITICAL) = 0 /\ CountOr0(h, HIGH) <= 5 /\ CountOr0(h, MEDIUM) <= 10

RowC(h) ==
    CountOr0(h, CRITICAL) <= 2 /\ CountOr0(h, HIGH) <= 8 /\ CountOr0(h, MEDIUM) <= 15

SameGradedCounts(h1, h2) ==
    \A l \in {CRITICAL, HIGH, MEDIUM} : CountOr0(h1, l) = CountOr0(h2, l)

\* C8: every histogram gets exactly one of A, B, C, D, by the first row of the
\* table that matches; a missing key counts as 0, and two histograms that differ
\* only in LOW, UNKNOWN or in keys whose count is 0 get the same grade.
C8_GradeTable ==
    gr # NoGrade =>
        /\ gr.grade \in {"A", "B", "C", "D"}
        /\ gr.grade = "A" <=> RowA(gh)
        /\ gr.grade = "B" <=> (~RowA(gh) /\ RowB(gh))
        /\ gr.grade = "C" <=> (~RowA(gh) /\ ~RowB(gh) /\ RowC(gh))
        /\ gr.grade = "D" <=> (~RowA(gh) /\ ~RowB(gh) /\ ~RowC(gh))
        /\ SameGradedCounts(gh, gh2) => gr2.grade = gr.grade

\* C8 witness: a histogram graded A on the edge of the row (HIGH 2, MEDIUM 5),
\* and graded A again with LOW increased.
C8_Witness ==
    /\ gr.grade = "A"
    /\ gh[HIGH] = 2 /\ gh[MEDIUM] = 5
    /\ CountOr0(gh2, LOW) > CountOr0(gh, LOW)
    /\ gr2.grade = "A"

\* Whether h2 is h1 with one severity count increased and all others equal.
OneCountIncreased(h1, h2) ==
    \E l \in GradedLabels :
        /\ CountOr0(h2, l) > CountOr0(h1, l)
        /\ \A k \in GradedLabels \ {l} : CountOr0(h2, k) = CountOr0(h1, k)

\* C9: increasing one severity count never gives a better grade.
C9_GradeMonotone ==
    (gr # NoGrade /\ OneCountIncreased(gh, gh2))
        => GradeRank(gr2.grade) <= GradeRank(gr.grade)

\* C9 witness: an increase of HIGH that takes the grade from A to B.
C9_Witness ==
    /\ gr.grade = "A"
    /\ gr2.grade = "B"
    /\ OneCountIncreased(gh, gh2)
    /\ CountOr0(gh2, HIGH) > CountOr0(gh, HIGH)

-----------------------------------------------------------------------------
(* Properties of artifact-name resolution *)

HasChar(str, c) == \E i \in DOMAIN str : str[i] = c

BuiltParts == [project |-> an.project, image |-> an.image, tag |-> an.tag]

\* C10 (as claimed): for project and image without hyphen and any tag, the
\* name project-image:tag resolves to exactly (project, image, tag).
C10_RoundTripAnyTag ==
    (anOut.done /\ ~HasChar(an.project, "-") /\ ~HasChar(an.image, "-"))
        => anOut.result = BuiltParts

\* Whether the parts of the name are ones the round trip is claimed for, as
\* amended: project and image non-empty and without hyphen, no colon in the
\* tag, and with an empty tag no colon in project and image either.
RoundTripParts ==
    /\ an.project # <<>> /\ an.image # <<>>
    /\ ~HasChar(an.project, "-") /\ ~HasChar(an.image, "-")
    /\ ~HasChar(an.tag, ":")
    /\ an.tag = <<>> => (~HasChar(an.project, ":") /\ ~HasChar(an.image, ":"))

\* C10 (amended): for non-empty project and image without hyphen and a tag
\* without colon (and, when the tag is empty, project and image without colon),
\* the name project-image:tag resolves to exactly (project, image, tag).
C10_RoundTrip ==
    (anOut.done /\ RoundTripParts) => anOut.result = BuiltParts

\* C10 witness: a-aa:1- resolved to its parts.
C10_Witness ==
    /\ anOut.done
    /\ an.name = <<"a", "-", "a", "a", ":", "1", "-">>
    /\ anOut.result = [project |-> <<"a">>, image |-> <<"a", "a">>, tag |-> <<"1", "-">>]

-----------------------------------------------------------------------------
(* Properties of the ranker *)

\* C11: the ranking of the scans of one image is a strict total order:
\* transitive, never both ways between two scans, and hence no scan of the
\* sorted list ranks strictly before an earlier one.
C11_RankingIsTotalOrder ==
    rkSorted.done =>
        /\ \A i, j, k \in DOMAIN rkScans :
               (ScanLess(rkScans[i], rkScans[j]) /\ ScanLess(rkScans[j], rkScans[k]))
                   => ScanLess(rkScans[i], rkScans[k])
        /\ \A i, j \in DOMAIN rkScans :
               ~(ScanLess(rkScans[i], rkScans[j]) /\ ScanLess(rkScans[j], rkScans[i]))
        /\ \A i, j \in DOMAIN rkSorted.scans :
               i < j => ~ScanLess(rkSorted.scans[j], rkSorted.scans[i])

\* One component pair: numeric when both sides parse, plain strings otherwise.
PairCompare(c1, c2) ==
    IF ParseIntOk(c1) /\ ParseIntOk(c2)
    THEN (IF ParseIntVal(c1) < ParseIntVal(c2) THEN -1
          ELSE IF ParseIntVal(c1) > ParseIntVal(c2) THEN 1 ELSE 0)
    ELSE (IF StrLess(c1, c2) THEN -1 ELSE IF StrLess(c2, c1) THEN 1 ELSE 0)

\* The dot-separated components of a tag, one leading "v" stripped.
ComponentsOf(tag) == Split(TrimPrefix(tag, <<"v">>), ".")

\* The positions both tags have a component at on which the tags differ.
UnequalAt(tag1, tag2) ==
    {k \in 1..Len(ComponentsOf(tag1)) :
        /\ k <= Len(ComponentsOf(tag2))
        /\ PairCompare(ComponentsOf(tag1)[k], ComponentsOf(tag2)[k]) # 0}

FirstOf(K) == CHOOSE k \in K : \A m \in K : k <= m

\* C12: for two tagged scans the first unequal component pair decides the
\* comparison, numerically when both sides parse and as strings otherwise;
\* 2.10.0 ranks above 2.9.0; and in the sorted list no scan comes after a
\* scan of lower version.
C12_HigherVersionFirst ==
    rkSorted.done =>
        /\ \A i, j \in DOMAIN rkScans :
               LET t1 == rkScans[i].Tag
                   t2 == rkScans[j].Tag
               IN  (t1 # <<>> /\ t2 # <<>> /\ UnequalAt(t1, t2) # {}) =>
                       rkSorted.cmp[i][j] =
                           PairCompare(ComponentsOf(t1)[FirstOf(UnequalAt(t1, t2))],
                                       ComponentsOf(t2)[FirstOf(UnequalAt(t1, t2))])
        /\ \A i, j \in DOMAIN rkScans :
               (/\ rkScans[i].Tag = <<"2", ".", "1", "0", ".", "0">>
                /\ rkScans[j].Tag = <<"2", ".", "9", ".", "0">>) => rkSorted.cmp[i][j] = 1
        /\ \A i, j \in DOMAIN rkSorted.scans :
               (/\ i < j
                /\ rkSorted.scans[i].Tag # <<>>
                /\ rkSorted.scans[j].Tag # <<>>)
                   => compareVersionTags(rkSorted.scans[j].Tag, rkSorted.scans[i].Tag) <= 0

\* C13: in the sorted list every scan with a tag precedes every scan without,
\* and the scans without tag are ordered by timestamp, newest first.
C13_TaggedBeforeUntagged ==
    rkSorted.done =>
        \A i, j \in DOMAIN rkSorted.scans :
            i < j =>
                /\ ~(rkSorted.scans[i].Tag = <<>> /\ rkSorted.scans[j].Tag # <<>>)
                /\ (rkSorted.scans[i].Tag = <<>> /\ rkSorted.scans[j].Tag = <<>>)
                       => ~After(rkSorted.scans[j].ModifiedAt, rkSorted.scans[i].ModifiedAt)

\* C13 witness: an old tagged scan appended last is sorted before two scans
\* without tag, the newer of which comes first.
C13_Witness ==
    /\ rkSorted.done
    /\ rkScans[1].Tag = <<>> /\ rkScans[1].ModifiedAt = EarlyTime
    /\ rkScans[2].Tag = <<>> /\ rkScans[2].ModifiedAt = LateTime
    /\ rkScans[3].Tag = <<"9">> /\ rkScans[3].ModifiedAt = EarlyTime
    /\ rkSorted.scans = <<rkScans[3], rkScans[2], rkScans[1]>>

\* C20: when the first tag runs out of components while the tags agree so
\* far, its missing component is compared as the empty string: it is less
\* than any non-empty component of the other tag, never equal to it (as a
\* numeric zero would be to 0) and never greater.
C20_MissingComponentIsAbsent ==
    rkSorted.done =>
        \A i, j \in DOMAIN rkScans :
            LET p1 == ComponentsOf(rkScans[i].Tag)
                p2 == ComponentsOf(rkScans[j].Tag)
            IN  (/\ rkScans[i].Tag # <<>>
                 /\ rkScans[j].Tag # <<>>
                 /\ Len(p1) < Len(p2)
                 /\ \A k \in 1..Len(p1) : PairCompare(p1[k], p2[k]) = 0
                 /\ p2[Len(p1) + 1] # <<>>)
                    => rkSorted.cmp[i][j] = -1

-----------------------------------------------------------------------------
(* Properties of the project and image views *)

\* The project summaries of a response, in the order of the response.
ProjectSeq(r) ==
    IF r.kind = "projects" THEN r.body
    ELSE IF r.kind = "project" THEN <<r.body>>
    ELSE <<>>

\* Where the file at relPath occurs in the views of a response: project,
\* image and position in the image's scans.
PlacesOf(r, relPath) ==
    LET ps == ProjectSeq(r)
        n  == Cardinality(DOMAIN files)
    IN  {t \in (1..n) \X (1..n) \X (1..n) :
            /\ t[1] \in DOMAIN ps
            /\ t[2] \in DOMAIN ps[t[1]].Images
            /\ t[3] \in DOMAIN ps[t[1]].Images[t[2]].Scans
            /\ ps[t[1]].Images[t[2]].Scans[t[3]].Filename = relPath}

\* The identity of the file at relPath after both strategies.
IdentityOf(relPath) ==
    LET report == files[relPath].report
        byName == IF report.decodes
                  THEN extractProjectImageTagFromArtifactName(report.ArtifactName)
                  ELSE [project |-> <<>>, image |-> <<>>, tag |-> <<>>]
        byPath == extractProjectAndImageFromPath(relPath)
    IN  IF byName.project # <<>> /\ byName.image # <<>>
        THEN [project |-> byName.project, image |-> byName.image]
        ELSE [project |-> byPath.project, image |-> byPath.image]

Resolved(relPath) ==
    IdentityOf(relPath).project # <<>> /\ IdentityOf(relPath).image # <<>>

\* Whether a response of the views is to show the file at relPath.
InView(r, relPath) ==
    /\ Resolved(relPath)
    /\ r.kind = "project" => IdentityOf(relPath).project = r.arg

Undecodable == {p \in DOMAIN files : ~files[p].report.decodes}

\* C14: a file that does not decode still gives a record with an empty
\* histogram and 0 vulnerabilities: in list-all-scans always, and in the
\* project views under the project and image its path alone resolves to.
C14_UndecodableStillListed ==
    \A p \in Undecodable :
        LET byPath == extractProjectAndImageFromPath(p)
        IN  /\ resp.kind = "scans" =>
                   \E i \in DOMAIN resp.body :
                       /\ resp.body[i].Filename = p
                       /\ resp.body[i].TotalVulns = 0
                       /\ resp.body[i].SeverityCount = <<>>
            /\ (/\ resp.kind \in {"projects", "project"}
                /\ byPath.project # <<>> /\ byPath.image # <<>>
                /\ resp.kind = "project" => byPath.project = resp.arg)
                   => \E t \in PlacesOf(resp, p) :
                          LET project == ProjectSeq(resp)[t[1]]
                              image   == project.Images[t[2]]
                          IN  /\ project.ProjectName = byPath.project
                              /\ image.ImageName = byPath.image
                              /\ image.Scans[t[3]].TotalVulns = 0
                              /\ image.Scans[t[3]].SeverityCount = <<>>

\* C14 witness: list-all-projects shows the undecodable a/x.json as the only
\* scan of image x of project a, beside a decoded report of another project.
C14_Witness ==
    /\ resp.kind = "projects"
    /\ PathAX \in Undecodable
    /\ PathBZ \in DOMAIN files /\ files[PathBZ].report = ReportUpper
    /\ \E t \in PlacesOf(resp, PathAX) :
           /\ resp.body[t[1]].ProjectName = <<"a">>
           /\ resp.body[t[1]].Images[t[2]].ImageName = <<"x">>
           /\ resp.body[t[1]].Images[t[2]].TotalVulns = 0

\* C15: a record whose project or image is empty after both strategies is in
\* no image's scans and in no totalScans of list-all-projects and get-project,
\* yet it is in list-all-scans; every record with project and image is in
\* exactly one image of exactly one project (of its own project, when one
\* project is asked for), under its own names.
C15_UnresolvedExcluded ==
    /\ resp.kind = "scans" =>
           \A p \in DOMAIN files :
               Cardinality({i \in DOMAIN resp.body : resp.body[i].Filename = p}) = 1
    /\ resp.kind \in {"projects", "project"} =>
           /\ \A p \in DOMAIN files :
                  IF InView(resp, p)
                  THEN /\ Cardinality(PlacesOf(resp, p)) = 1
                       /\ \A t \in PlacesOf(resp, p) :
                              LET project == ProjectSeq(resp)[t[1]]
                              IN  /\ project.ProjectName = IdentityOf(p).project
                                  /\ project.Images[t[2]].ImageName = IdentityOf(p).image
                  ELSE PlacesOf(resp, p) = {}
           /\ \A i \in DOMAIN ProjectSeq(resp) :
                  ProjectSeq(resp)[i].TotalScans =
                      Cardinality({p \in DOMAIN files :
                                      /\ InView(resp, p)
                                      /\ IdentityOf(p).project
                                             = ProjectSeq(resp)[i].ProjectName})

\* C15 witness: w.json, which has no image, and a/x.json are in the directory,
\* and list-all-projects answers with the one project a, of one scan.
C15_Witness ==
    /\ resp.kind = "projects"
    /\ DOMAIN files = {PathW, PathAX}
    /\ ~Resolved(PathW)
    /\ Len(resp.body) = 1
    /\ resp.body[1].ProjectName = <<"a">>
    /\ resp.body[1].TotalScans = 1

-----------------------------------------------------------------------------
(* Properties of the directory scanner *)

\* The directories above a relative path, as relative paths, the root among them.
DirsAbove(relPath) ==
    {<<>>} \cup {SubSeq(relPath, 1, i - 1) : i \in {k \in DOMAIN relPath : relPath[k] = "/"}}

\* The .json files of the tree that lie under readable directories only.
ReachableJSON ==
    {ExportDir \o <<"/">> \o p :
        p \in {q \in DOMAIN files : PathExt(q) = JsonExt /\ DirsAbove(q) \cap denied = {}}}

\* C16: over a tree that does not change, the directory scanner fails only
\* when the root cannot be read; an unreadable subdirectory is skipped, and the
\* walk returns, without error, every .json file under the readable directories.
C16_ScannerSkipsUnreadable ==
    /\ qpc = "failed" => <<>> \in denied
    /\ qpc \in {"files", "done"} => Range(qfound) = ReachableJSON

-----------------------------------------------------------------------------
(* Properties of path and artifact-name resolution *)

LaidPair == [project |-> pl.project, image |-> pl.image]

\* C18 (as claimed): for any project and image (neither empty), each of the
\* four layouts resolves to (project, image).
C18_LayoutsResolveAnyNames ==
    (plOut.done /\ pl.project # <<>> /\ pl.image # <<>>) => plOut.result = LaidPair

\* Whether the names laid out are ones the layouts are claimed for, as
\* amended: both non-empty, no hyphen in the image, and the flat name
\* project-image not itself ending in -YYYYMMDD-HHMMSS.
LayoutNames ==
    /\ pl.project # <<>> /\ pl.image # <<>>
    /\ ~HasChar(pl.image, "-")
    /\ ~HasTimestampSuffix(pl.project \o <<"-">> \o pl.image)

\* C18 (amended): for non-empty project and image, the image without hyphen
\* and project-image not ending like a timestamp, each of the four layouts
\* resolves to (project, image), also when the project has hyphens or digits.
C18_LayoutsResolve ==
    (plOut.done /\ LayoutNames) => plOut.result = LaidPair

\* C18 witness: p-1-i0.json resolves to project p-1, image i0.
C18_Witness ==
    /\ plOut.done
    /\ pl.layout = "flat"
    /\ pl.project = <<"p", "-", "1">>
    /\ pl.image = <<"i", "0">>
    /\ plOut.result = [project |-> <<"p", "-", "1">>, image |-> <<"i", "0">>]

\* Whether the split of an artifact name on its colon succeeds.
ColonSplitOk(name) ==
    \/ Count(name, ":") <= 1
    \/ (LastIndex(name, ":") > 0 /\ LastIndex(name, ":") < Len(name) - 1)

\* The part of an artifact name before the colon its tag follows.
NamePartOf(name) ==
    IF Count(name, ":") = 0 THEN name ELSE Slice(name, 0, LastIndex(name, ":"))

\* C19: a non-empty artifact name without hyphen and colon resolves to
\* project = image = the name and no tag; and when the only hyphen of the name
\* part is its first or last character, to project = image = the name part.
C19_HyphenFreeFallback ==
    anOut.done =>
        /\ (an.name # <<>> /\ ~HasChar(an.name, "-") /\ ~HasChar(an.name, ":"))
               => anOut.result = [project |-> an.name, image |-> an.name, tag |-> <<>>]
        /\ (/\ ColonSplitOk(an.name)
            /\ Count(NamePartOf(an.name), "-") = 1
            /\ \/ Head(NamePartOf(an.name)) = "-"
               \/ NamePartOf(an.name)[Len(NamePartOf(an.name))] = "-")
               => /\ anOut.result.project = NamePartOf(an.name)
                  /\ anOut.result.image = NamePartOf(an.name)

\* C19 witness: a-:a resolves to project = image = a- with tag a.
C19_Witness ==
    /\ anOut.done
    /\ an.name = <<"a", "-", ":", "a">>
    /\ anOut.result = [project |-> <<"a", "-">>, image |-> <<"a", "-">>, tag |-> <<"a">>]

-----------------------------------------------------------------------------
(* Properties of path resolution at any depth *)

\* The elements of a relative path.
PathElems(path) == Split(path, "/")

\* The file name of a relative path, without its extension.
StemOf(path) ==
    LET name == PathElems(path)[Len(PathElems(path))]
    IN  Slice(name, 0, Len(name) - Len(JsonExt))

\* C21 (as claimed): for a relative path with at least one separator, at any
\* depth, path-based resolution gives the first directory element as project
\* and the file name, extension and timestamp suffix removed, as image.
C21_LeadingDirectoryIsProject ==
    (plOut.done /\ HasChar(pl.path, "/")) =>
        /\ plOut.result.project = PathElems(pl.path)[1]
        /\ plOut.result.image = removeTimestampFromFilename(StemOf(pl.path))

-----------------------------------------------------------------------------
(* Properties of the scan records *)

\* The records a response holds of the file at relPath.
RecordsIn(r, relPath) ==
    IF r.kind = "scans"
    THEN {r.body[i] : i \in {k \in DOMAIN r.body : r.body[k].Filename = relPath}}
    ELSE {ProjectSeq(r)[t[1]].Images[t[2]].Scans[t[3]] : t \in PlacesOf(r, relPath)}

\* The names the artifact name of the file at relPath gives; none when the
\* file does not decode.
ByNameOf(relPath) ==
    IF files[relPath].report.decodes
    THEN extractProjectImageTagFromArtifactName(files[relPath].report.ArtifactName)
    ELSE [project |-> <<>>, image |-> <<>>, tag |-> <<>>]

\* C22: the project and image of every record are those of the artifact name
\* when it gives a non-empty project, and those of the path when the file does
\* not decode, its artifact name is empty or gives no project; so the path
\* never overrides an artifact name that gave project and image. In
\* list-all-scans, list-all-projects and get-project alike.
C22_ArtifactNameBeforePath ==
    resp.kind \in {"scans", "projects", "project"} =>
        \A p \in DOMAIN files : \A rec \in RecordsIn(resp, p) :
            LET byName == ByNameOf(p)
                byPath == extractProjectAndImageFromPath(p)
            IN  /\ byName.project # <<>>
                       => /\ rec.ProjectName = byName.project
                          /\ rec.ImageName = byName.image
                /\ (\/ ~files[p].report.decodes
                    \/ files[p].report.ArtifactName = <<>>
                    \/ byName.project = <<>>)
                       => /\ rec.ProjectName = byPath.project
                          /\ rec.ImageName = byPath.image

\* C22 witness: list-all-scans over b-z.json, whose artifact name :9 gives no
\* project, and w.json with artifact name a-x:9: the first is b, z by its
\* path, the second a, x by its artifact name.
C22_Witness ==
    /\ resp.kind = "scans"
    /\ PathBZ \in DOMAIN files /\ files[PathBZ].report = ReportTagOnly
    /\ PathW \in DOMAIN files /\ files[PathW].report = ReportTag9
    /\ \E rec \in RecordsIn(resp, PathBZ) :
           rec.ProjectName = <<"b">> /\ rec.ImageName = <<"z">>
    /\ \E rec \in RecordsIn(resp, PathW) :
           rec.ProjectName = <<"a">> /\ rec.ImageName = <<"x">>

\* The vulnerability entries of a report: result group and place in it.
EntriesOf(report) ==
    {e \in (1..Len(report.Results)) \X (1..Len(Flatten(report.Results))) :
        e[2] \in DOMAIN report.Results[e[1]]}

\* The label an entry is to be counted under.
LabelOf(report, e) ==
    LET written == report.Results[e[1]][e[2]]
    IN  IF written = <<>> THEN UNKNOWN ELSE ToUpper(written)

\* The sum of the values of a histogram.
RECURSIVE SumCounts(_)
SumCounts(counts) ==
    IF DOMAIN counts = {} THEN 0
    ELSE LET l == CHOOSE k \in DOMAIN counts : TRUE
         IN  counts[l] + SumCounts([k \in DOMAIN counts \ {l} |-> counts[k]])

\* C27: the record of a decoded report counts every vulnerability entry of
\* every result group under its label in upper case, an empty label as
\* UNKNOWN, and nothing else; its totalVulns is the sum of the counts. In
\* list-all-scans, list-all-projects and get-project alike.
C27_HistogramCountsEveryEntry ==
    resp.kind \in {"scans", "projects", "project"} =>
        \A p \in DOMAIN files : \A rec \in RecordsIn(resp, p) :
            files[p].report.decodes =>
                LET report == files[p].report
                    labels == {LabelOf(report, e) : e \in EntriesOf(report)}
                IN  /\ DOMAIN rec.SeverityCount = labels
                    /\ \A l \in labels :
                           rec.SeverityCount[l] =
                               Cardinality({e \in EntriesOf(report) : LabelOf(report, e) = l})
                    /\ rec.TotalVulns = SumCounts(rec.SeverityCount)

\* C27 witness: list-all-projects shows a/x.json, whose report has the labels
\* low, none and HIGH, with one LOW, one UNKNOWN and one HIGH, 3 in total.
C27_Witness ==
    /\ resp.kind = "projects"
    /\ PathAX \in DOMAIN files /\ files[PathAX].report = ReportNoName
    /\ \E rec \in RecordsIn(resp, PathAX) :
           /\ rec.SeverityCount = (LOW :> 1) @@ (UNKNOWN :> 1) @@ (HIGH :> 1)
           /\ rec.TotalVulns = 3

-----------------------------------------------------------------------------
(* Properties of the artifact-name resolver on any name *)

\* C23 (as claimed): for every artifact name the resolver gives a non-empty
\* project exactly when it gives a non-empty image, and when the project is
\* empty all three strings, the tag too, are empty.
C23_ProjectIffImage ==
    anOut.done =>
        /\ (anOut.result.project # <<>>) <=> (anOut.result.image # <<>>)
        /\ anOut.result.project = <<>>
               => (anOut.result.image = <<>> /\ anOut.result.tag = <<>>)

-----------------------------------------------------------------------------
(* Properties of the timestamp subroutines *)

\* Whether a name ends in a hyphen, 8 digits, a hyphen and 6 digits.
EndsInStamp(name) ==
    /\ Len(name) >= 16
    /\ LET last == SubSeq(name, Len(name) - 15, Len(name))
       IN  /\ last[1] = "-" /\ last[10] = "-"
           /\ \A k \in (2..9) \cup (11..16) : IsDigit(last[k])

\* A name without its last 16 characters.
WithoutLast16(name) == SubSeq(name, 1, Len(name) - 16)

\* Whether a name ends in two timestamps, one after the other.
EndsInTwoStamps(name) == EndsInStamp(name) /\ EndsInStamp(WithoutLast16(name))

BackendStamped ==
    <<"b", "-", "2", "0", "2", "5", "1", "1", "2", "6", "-", "1", "8", "2", "0", "0", "0">>

\* C24 (as claimed): for every file name, stripping the timestamp twice gives
\* what stripping it once gives.
C24_StripIdempotentAnyName ==
    Len(tsOut.names) >= 2 => tsOut.names[2] = tsOut.names[1]

\* C24 (amended): for every file name that does not end in two timestamps one
\* after the other, stripping the timestamp twice gives what stripping it once
\* gives; b-20251126-182000 gives b, and b again.
C24_StripIdempotent ==
    /\ (Len(tsOut.names) >= 2 /\ ~EndsInTwoStamps(ts.name))
           => tsOut.names[2] = tsOut.names[1]
    /\ (Len(tsOut.names) >= 1 /\ ts.name = BackendStamped)
           => tsOut.names[1] = <<"b">>

\* C24 witness: b-20251126-182000 stripped twice is b both times.
C24_Witness ==
    /\ ts.name = BackendStamped
    /\ Len(tsOut.names) >= 2
    /\ tsOut.names[1] = <<"b">>
    /\ tsOut.names[2] = <<"b">>

\* C25 (as claimed): the last 16 characters of a file name are removed exactly
\* when it ends in a hyphen, 8 digits, a hyphen and 6 digits, also when it is
\* that suffix and nothing else; every other name is returned as it is.
C25_StripsExactlyTheSuffix ==
    Len(tsOut.names) >= 1 =>
        tsOut.names[1] = IF EndsInStamp(ts.name) THEN WithoutLast16(ts.name) ELSE ts.name

\* The days of a month of the calendar.
CalendarDays(year, month) ==
    CASE month \in {1, 3, 5, 7, 8, 10, 12} -> 31
      [] month \in {4, 6, 9, 11} -> 30
      [] month = 2 -> IF year % 400 = 0 \/ (year % 4 = 0 /\ year % 100 # 0) THEN 29 ELSE 28
      [] OTHER -> 0

\* Whether YYYYMMDD and HHMMSS, as numbers, are a date and a time of day.
IsDateTime(d, t) ==
    /\ (d % 100) >= 1 /\ (d % 100) <= CalendarDays(d \div 10000, (d \div 100) % 100)
    /\ t \div 10000 <= 23 /\ (t \div 100) % 100 <= 59 /\ t % 100 <= 59

\* C26: the time read from a path is the date and time its file name encodes
\* exactly when the name, without extension, ends in a suffix the stripping
\* subroutine removes and the digits of the suffix are a date and a time of
\* day; otherwise it is the fallback, and never anything else.
C26_TimestampOrFallback ==
    tsOut.timed =>
        LET d == DigitsValue(SubSeq(ts.name, Len(ts.name) - 14, Len(ts.name) - 7))
            t == DigitsValue(SubSeq(ts.name, Len(ts.name) - 5, Len(ts.name)))
        IN  IF /\ removeTimestampFromFilename(ts.name) # ts.name
               /\ IsDateTime(d, t)
            THEN tsOut.time = [d |-> d, t |-> t]
            ELSE tsOut.time = ts.fallback

\* C26 witness: a/b-20240229-235959.json, a leap day, is read as that time
\* and not as the fallback.
C26_Witness ==
    /\ tsOut.timed
    /\ ts.dir = <<"a", "/">>
    /\ ts.name = <<"b", "-", "2", "0", "2", "4", "0", "2", "2", "9", "-",
                   "2", "3", "5", "9", "5", "9">>
    /\ tsOut.time = [d |-> 20240229, t |-> 235959]
    /\ tsOut.time # ts.fallback

-----------------------------------------------------------------------------
(* Properties of the lists and of what is opened from them *)

\* The images of a project summary, by name.
ImageOf(summary, imageName) ==
    {im \in Range(summary.Images) : im.ImageName = imageName}

\* C28: over an unchanged directory, the summary get-project gives for a
\* project of list-all-projects has the same totalScans, totalVulns,
\* severityCount and lastScan, the same image names and, per image, the same
\* ranked scans and the same current totals.
C28_ListAndGetAgree ==
    (resp.kind = "project" /\ prevResp.kind = "projects") =>
        \A i \in DOMAIN prevResp.body :
            prevResp.body[i].ProjectName = resp.arg =>
                LET listed == prevResp.body[i]
                    got    == resp.body
                IN  /\ got.TotalScans = listed.TotalScans
                    /\ got.TotalVulns = listed.TotalVulns
                    /\ got.SeverityCount = listed.SeverityCount
                    /\ got.LastScan = listed.LastScan
                    /\ Len(got.Images) = Len(listed.Images)
                    /\ \A im \in Range(listed.Images) :
                           \E jm \in ImageOf(got, im.ImageName) :
                               /\ jm.Scans = im.Scans
                               /\ jm.TotalVulns = im.TotalVulns
                               /\ jm.SeverityCount = im.SeverityCount
                               /\ jm.LastScan = im.LastScan

\* C28 witness: project a is listed with two images, one of them of two
\* scans, and get-project(a) answers with its three scans in two images.
C28_Witness ==
    /\ resp.kind = "project" /\ prevResp.kind = "projects"
    /\ resp.arg = <<"a">>
    /\ Len(prevResp.body) = 1
    /\ prevResp.body[1].ProjectName = <<"a">>
    /\ resp.body.TotalScans = 3
    /\ Len(resp.body.Images) = 2
    /\ \E im \in Range(resp.body.Images) : Len(im.Scans) = 2

\* C29 (as claimed): for every project of list-all-projects, the total and the
\* severity counts the page derives from list-all-scans, taking per image the
\* scan with the greatest modifiedAt, are the project's totalVulns and
\* severityCount.
C29_PageTotalsAreBackendTotals ==
    (resp.kind = "projects" /\ prevResp.kind = "scans") =>
        \A i \in DOMAIN resp.body :
            LET kept == perImage(prevResp.body, resp.body[i].ProjectName, <<>>)
            IN  /\ latestTotalVulns(kept) = resp.body[i].TotalVulns
                /\ latestSeverity(kept) = resp.body[i].SeverityCount

\* C30 (as claimed): the detail of every file name list-all-scans gives for a
\* report that decodes is not refused as invalid, and its totalVulns is that
\* of the scan record; also for names with two dots in a row.
C30_ListedScansOpen ==
    (resp.kind = "detail" /\ prevResp.kind = "scans") =>
        \A i \in DOMAIN prevResp.body :
            (/\ prevResp.body[i].Filename = resp.arg
             /\ resp.arg \in DOMAIN files
             /\ files[resp.arg].report.decodes)
                => /\ resp.status # 400
                   /\ resp.body.totalVulns = prevResp.body[i].TotalVulns

====
